---- MODULE Spec2Model ----
(***************************************************************************)
(* Model of the SAA analysis core of gesttaltt/saa-manifold:               *)
(*   - the value objects (coordinates.py, flux_data.py),                   *)
(*   - the SAAAnomaly entity (saa_anomaly.py),                             *)
(*   - AnomalyDetectionService (anomaly_detection_service.py),             *)
(*   - SAAAnalysisService.analyze_region (saa_analysis_service.py),        *)
(*   - DomainEventPublisher.publish (domain_events.py),                    *)
(*   - ManifoldGenerationService.generate_manifold                         *)
(*     (manifold_generation_service.py),                                   *)
(*   - IGRFCoordinateAdapter (igrf_coordinate_adapter.py),                 *)
(*   - AE9AP9Adapter.get_flux_in_region and get_flux_data with its cache   *)
(*     (ae9_ap9_adapter.py).                                               *)
(*                                                                         *)
(* Number representation (the source computes in binary floating point):   *)
(*   angles            milli-degrees                                       *)
(*   distances/lengths metres                                              *)
(*   altitudes         kilometres                                          *)
(*   confidences       units of 1e-4 (10000 is 1.0)                        *)
(*   uncertainties     stored squared (uncertainty_sq), so that the        *)
(*                     quadrature sum sqrt(a^2+b^2) is exact               *)
(* Real divisions become integer divisions on these units.                 *)
(*                                                                         *)
(* Modelling assumption: saa_anomaly.py declares the defaulted field `id`  *)
(* before non-default fields, which dataclass() rejects when the class is  *)
(* created.  The model describes the methods as written, i.e. the entity   *)
(* as if that declaration were accepted.                                   *)
(***************************************************************************)
EXTENDS Integers, Sequences, FiniteSets, TLC

VARIABLES
    entry,                  \* public operation invoked: analyze_region or detect_anomalies
    params,                 \* AnomalyDetectionService._params
    port_data,              \* what FluxDataPort.get_flux_in_region returns / detect's argument
    pc,                     \* position of the running call
    flux_data,              \* analyze_region: flux_data (the valid samples)
    statistical_anomalies,  \* detect_anomalies: result of step 1
    anomalies,              \* detect_anomalies: clustered / validated / final list
    detected,               \* value returned by detect_anomalies ("none" until it returns)
    manifold,               \* [requested, called, anomalies]: the generate_manifold call
    outcome,                \* what the invoked operation gave its caller
    origin,                 \* history: message of the innermost failure raised
    trace,                  \* history: pipeline steps in execution order
    log,                    \* history: logger warnings
    handlers,               \* DomainEventPublisher._handlers["analysis_completed"]
    delivered,              \* history: handlers invoked by publish, in order
    store,                  \* SAAAnomaly entities alive, by index
    call,                   \* last entity-level / stage-level call and its outcome
    now,                    \* datetime.utcnow(), in clock ticks
    generation,             \* the running ManifoldGenerationService.generate_manifold call
    igrf,                   \* IGRFCoordinateAdapter: its fields and the running call
    ae9,                    \* AE9AP9Adapter: its fields and the running get_flux_in_region
    publisher               \* DomainEventPublisher: _handlers and the running publish

vars == <<entry, params, port_data, pc, flux_data, statistical_anomalies, anomalies,
          detected, manifold, outcome, origin, trace, log, handlers, delivered,
          store, call, now, generation, igrf, ae9, publisher>>

analysisVars == <<entry, params, port_data, pc, flux_data, statistical_anomalies,
                  anomalies, detected, manifold, outcome, origin, trace, log,
                  handlers, delivered>>

entityVars == <<store, call>>

componentVars == <<now, generation, igrf, ae9, publisher>>

-----------------------------------------------------------------------------
(* Bounds of the model *)

SmallSamples == 6       \* sample lists of every length 0..SmallSamples
PeakSamples == 51       \* plus lists of this length (a 3-sigma group of 5 needs > 50)
MaxHot == 5             \* longest run of elevated samples
MaxStart == 3           \* the run starts at one of the first MaxStart positions
MaxHandlers == 2        \* subscribers of the completion event
MaxAnomalies == 1       \* entities created by merge_with on top of the initial two
MaxList == 3            \* longest anomaly list given to the validation / merge stages
MaxMutations == 2       \* successful update_* calls in one entity lifetime run
MaxManifoldSamples == 3 \* longest sample list given to generate_manifold on its own
RecursionLimit == 6     \* frames the interpreter allows on the call stack
MaxTicks == 1           \* clock ticks in one entity lifetime run
MaxSubscriptions == 3   \* longest handler list of one event type
MaxCalls == 3           \* get_flux_data calls in flight together
MaxFluxSamples == 3     \* longest sample list given to _detect_statistical_anomalies
MaxDraws == 2           \* distinct outcomes of the random noise of one computation

(* Program constants *)

EARTH_RADIUS_M_PER_DEG == 111195      \* R = 6371.0 km: R*pi/180 = 111.19493 km per degree
KM_PER_DEGREE == 111                  \* char_length = sqrt(..) * 111.0
DEFAULT_SIGMA == 3                    \* intensity_threshold_sigma = 3.0
DEFAULT_MIN_EXTENT_M == 50000         \* minimum_extent_km = 50.0
DEFAULT_CONFIDENCE_THRESHOLD == 9000  \* confidence_threshold = 0.9
DEFAULT_MERGE_DISTANCE_M == 100000    \* merge_distance_km = 100.0
SIGNIFICANT_CONFIDENCE == 9000        \* is_significant_anomaly: confidence_level >= 0.9
SIGNIFICANT_LENGTH_M == 10000         \* is_significant_anomaly: characteristic_length > 10.0
PEAK_CONFIDENCE == 9500               \* FluxIntensity(confidence_level=0.95)
PLACEHOLDER_LON == -45000             \* longitude=-45.0 + (i % 10)
PLACEHOLDER_LAT == -20000             \* latitude=-20.0 + (i // 10)
PLACEHOLDER_ALT == 500                \* altitude=500.0
GRID_COLUMNS == 10                    \* i % 10, i // 10
MAX_MOVEMENT_M == 1000000             \* if distance_moved > 1000
BATCH_SIZE == 100                     \* batch_size = 100
MAX_LON_SPAN == 180000                \* if lon_span > 180
MAX_LAT_SPAN == 90000                 \* or lat_span > 90
MAX_TOTAL_POINTS == 10000             \* if total_points > 10000
DEFAULT_RESOLUTION == 1000            \* resolution = resolution or 1.0
ALTITUDE_STEP == 50                   \* int((altitude_max - altitude_min) / 50)
POLE_BASE_YEAR == 2020                \* base_year = 2020.0
POLE_BASE_LAT == 86500                \* base_lat = 86.5
POLE_BASE_LON == -164000              \* base_lon = -164.0
POLE_LAT_DRIFT == 100                 \* lat_drift = -0.1 (subtracted)
POLE_LON_DRIFT == 10000               \* lon_drift = 10.0

-----------------------------------------------------------------------------
(* Generic helpers *)

Max(a, b) == IF a >= b THEN a ELSE b
Min(a, b) == IF a <= b THEN a ELSE b
Abs(a) == IF a >= 0 THEN a ELSE -a

RECURSIVE SumSeq(_)
SumSeq(s) == IF s = <<>> THEN 0 ELSE Head(s) + SumSeq(Tail(s))

RECURSIVE SelectIdx(_, _, _)
\* the elements of s whose index is in keep, in index order, from index i on
SelectIdx(s, keep, i) ==
    IF i > Len(s) THEN <<>>
    ELSE IF i \in keep THEN <<s[i]>> \o SelectIdx(s, keep, i + 1)
    ELSE SelectIdx(s, keep, i + 1)

SetMax(S) == CHOOSE x \in S : \A y \in S : y <= x
SetMin(S) == CHOOSE x \in S : \A y \in S : x <= y

RECURSIVE ISqrtBin(_, _, _)
\* floor of the square root of x, by bisection on lo..hi
ISqrtBin(x, lo, hi) ==
    IF lo >= hi THEN lo
    ELSE LET mid == (lo + hi + 1) \div 2
         IN IF mid * mid <= x THEN ISqrtBin(x, mid, hi) ELSE ISqrtBin(x, lo, mid - 1)

ISqrt(x) == ISqrtBin(x, 0, 46340)

NoError == [type |-> "none", message |-> <<>>]
Raise(t, m) == [type |-> t, message |-> m]
\* f"prefix: {str(e)}"
Wrap(prefix, m) == <<prefix>> \o m
\* the text m contains the text orig (here always as its tail)
Contains(m, orig) ==
    \E k \in 1..(Len(m) + 1) : SubSeq(m, k, Len(m)) = orig

-----------------------------------------------------------------------------
(* coordinates.py *)

GeographicCoordinates(lon, lat, alt) ==
    [longitude |-> lon, latitude |-> lat, altitude |-> alt]

\* GeographicCoordinates.__post_init__: TRUE when construction succeeds
ValidCoordinates(c) ==
    /\ -180000 <= c.longitude /\ c.longitude <= 180000
    /\ -90000 <= c.latitude /\ c.latitude <= 90000
    /\ c.altitude >= 0

\* haversine distance in metres between the integer-degree points (lat1, lon)
\* and (lat2, lon + d degrees), lat1, lat2 in -20..-14, d in 0..9: the source
\* formula evaluated on the placeholder grid; row (lat1+20)*7 + (lat2+20) + 1,
\* column d + 1
HaversineGridM ==
    <<
      <<0, 104489, 208977, 313463, 417946, 522426, 626901, 731370, 835833, 940288>>,
      <<111195, 152809, 237294, 333523, 433746, 535724, 638614, 742034, 845786, 949759>>,
      <<222390, 245987, 306049, 385908, 475695, 570740, 668804, 768730, 869873, 971850>>,
      <<333585, 349850, 394642, 459697, 537707, 623829, 715136, 809875, 906967, 1005730>>,
      <<444780, 457172, 492483, 546283, 613730, 690835, 774719, 863405, 955556, 1050257>>,
      <<555975, 565990, 595026, 640499, 699209, 768126, 844752, 927178, 1013987, 1104145>>,
      <<667170, 675581, 700208, 739433, 791085, 852909, 922861, 999235, 1080667, 1166096>>,
      <<111195, 152809, 237294, 333523, 433746, 535724, 638614, 742034, 845786, 949759>>,
      <<0, 105137, 210273, 315407, 420538, 525667, 630791, 735910, 841022, 946128>>,
      <<111195, 153243, 238412, 335311, 436190, 538817, 642350, 746412, 850804, 955417>>,
      <<222390, 246251, 306896, 387420, 477875, 573580, 672294, 772862, 874644, 977257>>,
      <<333585, 350031, 395285, 460937, 539592, 626368, 718325, 813708, 911439, 1010835>>,
      <<444780, 457308, 492985, 547303, 615343, 693074, 777593, 866916, 959701, 1055031>>,
      <<555975, 566097, 595432, 641347, 700591, 770090, 847325, 930368, 1017798, 1108575>>,
      <<222390, 245987, 306049, 385908, 475695, 570740, 668804, 768730, 869873, 971850>>,
      <<111195, 153243, 238412, 335311, 436190, 538817, 642350, 746412, 850804, 955417>>,
      <<0, 105753, 211504, 317255, 423002, 528747, 634488, 740225, 845956, 951680>>,
      <<111195, 153656, 239473, 337010, 438511, 541753, 645898, 750568, 855568, 960788>>,
      <<222390, 246502, 307702, 388855, 479944, 576273, 675602, 776781, 879168, 982383>>,
      <<333585, 350203, 395895, 462115, 541379, 628773, 721346, 817339, 915673, 1015669>>,
      <<444780, 457436, 493462, 548269, 616871, 695193, 780314, 870238, 963620, 1059544>>,
      <<333585, 349850, 394642, 459697, 537707, 623829, 715136, 809875, 906967, 1005730>>,
      <<222390, 246251, 306896, 387420, 477875, 573580, 672294, 772862, 874644, 977257>>,
      <<111195, 153656, 239473, 337010, 438511, 541753, 645898, 750568, 855568, 960788>>,
      <<0, 106336, 212672, 319006, 425338, 531667, 637992, 744314, 850631, 956942>>,
      <<111195, 154048, 240479, 338617, 440708, 544531, 649254, 754500, 860076, 965870>>,
      <<222390, 246740, 308465, 390214, 481900, 578818, 678730, 780484, 883442, 987225>>,
      <<333585, 350367, 396473, 463228, 543068, 631045, 724198, 820764, 919668, 1020228>>,
      <<444780, 457172, 492483, 546283, 613730, 690835, 774719, 863405, 955556, 1050257>>,
      <<333585, 350031, 395285, 460937, 539592, 626368, 718325, 813708, 911439, 1010835>>,
      <<222390, 246502, 307702, 388855, 479944, 576273, 675602, 776781, 879168, 982383>>,
      <<111195, 154048, 240479, 338617, 440708, 544531, 649254, 754500, 860076, 965870>>,
      <<0, 106887, 213774, 320659, 427543, 534424, 641302, 748177, 855047, 961912>>,
      <<111195, 154419, 241429, 340134, 442780, 547152, 652419, 758209, 864326, 970661>>,
      <<222390, 246965, 309185, 391494, 483742, 581215, 681673, 783969, 887465, 991783>>,
      <<555975, 565990, 595026, 640499, 699209, 768126, 844752, 927178, 1013987, 1104145>>,
      <<444780, 457308, 492985, 547303, 615343, 693074, 777593, 866916, 959701, 1055031>>,
      <<333585, 350203, 395895, 462115, 541379, 628773, 721346, 817339, 915673, 1015669>>,
      <<222390, 246740, 308465, 390214, 481900, 578818, 678730, 780484, 883442, 987225>>,
      <<111195, 154419, 241429, 340134, 442780, 547152, 652419, 758209, 864326, 970661>>,
      <<0, 107406, 214811, 322216, 429618, 537019, 644417, 751811, 859202, 966588>>,
      <<111195, 154768, 242321, 341559, 444726, 549612, 655392, 761691, 868317, 975161>>,
      <<667170, 675581, 700208, 739433, 791085, 852909, 922861, 999235, 1080667, 1166096>>,
      <<555975, 566097, 595432, 641347, 700591, 770090, 847325, 930368, 1017798, 1108575>>,
      <<444780, 457436, 493462, 548269, 616871, 695193, 780314, 870238, 963620, 1059544>>,
      <<333585, 350367, 396473, 463228, 543068, 631045, 724198, 820764, 919668, 1020228>>,
      <<222390, 246965, 309185, 391494, 483742, 581215, 681673, 783969, 887465, 991783>>,
      <<111195, 154768, 242321, 341559, 444726, 549612, 655392, 761691, 868317, 975161>>,
      <<0, 107892, 215783, 323674, 431563, 539450, 647334, 755216, 863095, 970969>>
    >>

\* great circle arc along a meridian: R * |dlat| (the haversine formula with dlon = 0)
MeridianArcM(dlat) ==
    (dlat \div 1000) * EARTH_RADIUS_M_PER_DEG
        + ((dlat % 1000) * EARTH_RADIUS_M_PER_DEG) \div 1000

\* GeographicCoordinates.distance_to, in metres.  Defined for two points of one
\* meridian and for two points of the placeholder grid.
distance_to(a, b) ==
    IF a.longitude = b.longitude
    THEN MeridianArcM(Abs(a.latitude - b.latitude))
    ELSE HaversineGridM[((a.latitude \div 1000) + 20) * 7 + ((b.latitude \div 1000) + 20) + 1]
                       [(Abs(a.longitude - b.longitude) \div 1000) + 1]

SpatialBounds(lon_span, lat_span, alt_span, char_length) ==
    [longitude_span |-> lon_span, latitude_span |-> lat_span,
     altitude_span |-> alt_span, characteristic_length |-> char_length]

\* SpatialBounds.__post_init__: the ValueError raised, or NoError
SpatialBoundsError(b) ==
    IF b.longitude_span <= 0 THEN Raise("ValueError", <<"Invalid longitude_span">>)
    ELSE IF b.latitude_span <= 0 THEN Raise("ValueError", <<"Invalid latitude_span">>)
    ELSE IF b.altitude_span <= 0 THEN Raise("ValueError", <<"Invalid altitude_span">>)
    ELSE IF b.characteristic_length <= 0
         THEN Raise("ValueError", <<"Invalid characteristic_length">>)
    ELSE NoError

-----------------------------------------------------------------------------
(* flux_data.py *)

FluxIntensity(v, usq, conf, u) ==
    [value |-> v, uncertainty_sq |-> usq, confidence_level |-> conf, units |-> u]

DefaultUnits == "particles/cm2/s"
OtherUnits == "particles/m2/s"

\* FluxIntensity.__post_init__
ValidFluxIntensity(f) ==
    /\ f.value >= 0
    /\ f.uncertainty_sq >= 0
    /\ 0 < f.confidence_level /\ f.confidence_level <= 10000

\* FluxIntensity.__add__ (the caller checks the units first, see FluxAddError)
FluxAdd(a, b) ==
    FluxIntensity(a.value + b.value,
                  a.uncertainty_sq + b.uncertainty_sq,
                  Min(a.confidence_level, b.confidence_level),
                  a.units)

FluxAddError(a, b) ==
    IF a.units # b.units
    THEN Raise("ValueError", <<"Cannot add fluxes with different units">>)
    ELSE NoError

\* FluxIntensity.is_significant(sigma_threshold): value > sigma * uncertainty
is_significant(f, sigma_threshold) ==
    IF f.uncertainty_sq = 0 THEN f.value > 0
    ELSE f.value * f.value > sigma_threshold * sigma_threshold * f.uncertainty_sq

FluxData(e, p, q) == [electron_flux |-> e, proton_flux |-> p, data_quality |-> q]

\* FluxData.total_flux
total_flux(d) == FluxAdd(d.electron_flux, d.proton_flux)

-----------------------------------------------------------------------------
(* saa_anomaly.py *)

DetectedEvent(id) == [type |-> "saa_anomaly_detected", anomaly_id |-> id]
MergedEvent(ids, id) ==
    [type |-> "saa_anomalies_merged", original_anomaly_ids |-> ids,
     merged_anomaly_id |-> id]

IntensityChangedEvent(id, old, new) ==
    [type |-> "saa_anomaly_intensity_changed", anomaly_id |-> id,
     old_intensity |-> old, new_intensity |-> new]
PositionChangedEvent(id, old, new, moved) ==
    [type |-> "saa_anomaly_position_changed", anomaly_id |-> id,
     old_coordinates |-> old, new_coordinates |-> new, distance_moved |-> moved]

\* SAAAnomaly.__post_init__: the ValueError raised, or NoError
AnomalyError(confidence) ==
    IF ~(0 < confidence /\ confidence <= 10000)
    THEN Raise("ValueError", <<"Confidence level must be between 0 and 1">>)
    ELSE NoError

\* SAAAnomaly(...) after a successful __post_init__: the creation event is recorded
SAAAnomaly(id, center, peak, extent, confidence) ==
    [id |-> id, center_coordinates |-> center, intensity_peak |-> peak,
     spatial_extent |-> extent, confidence_level |-> confidence,
     drift_rate |-> <<>>, last_position_update |-> <<>>,
     version |-> 1, domain_events |-> <<DetectedEvent(id)>>]

\* SAAAnomaly.is_significant_anomaly(threshold_factor=2.0)
is_significant_anomaly(a) ==
    /\ is_significant(a.intensity_peak, 2)
    /\ a.confidence_level >= SIGNIFICANT_CONFIDENCE
    /\ a.spatial_extent.characteristic_length > SIGNIFICANT_LENGTH_M

\* SAAAnomaly.overlaps_with(other, overlap_threshold=0.1):
\* center_distance < combined_extent * 0.1
overlaps_with(a, b) ==
    10 * distance_to(a.center_coordinates, b.center_coordinates)
        < a.spatial_extent.characteristic_length + b.spatial_extent.characteristic_length

Returned(a) == [kind |-> "anomaly", anomaly |-> a, error |-> NoError]
Raised(e) == [kind |-> "raise", error |-> e]
ReturnedNone == [kind |-> "none", error |-> NoError]

\* the body of merge_with keeping the extent of self instead of the maxima
MergeOverlapping_self_extent(self, other, new_id) ==
    LET w1 == self.intensity_peak.value
        w2 == other.intensity_peak.value
        total_weight == w1 + w2
        c1 == self.center_coordinates
        c2 == other.center_coordinates
    IN IF total_weight = 0
       THEN Raised(Raise("ValueError", <<"Cannot merge anomalies with zero intensity">>))
       ELSE IF FluxAddError(self.intensity_peak, other.intensity_peak) # NoError
       THEN Raised(FluxAddError(self.intensity_peak, other.intensity_peak))
       ELSE
         LET center == GeographicCoordinates(
                          (w1 * c1.longitude + w2 * c2.longitude) \div total_weight,
                          (w1 * c1.latitude + w2 * c2.latitude) \div total_weight,
                          (w1 * c1.altitude + w2 * c2.altitude) \div total_weight)
             merged == SAAAnomaly(new_id, center,
                                  FluxAdd(self.intensity_peak, other.intensity_peak),
                                  self.spatial_extent,
                                  Min(self.confidence_level, other.confidence_level))
         IN Returned([merged EXCEPT !.domain_events =
                         Append(@, MergedEvent(<<self.id, other.id>>, new_id))])

\* the body of merge_with once the overlap test has passed
MergeOverlapping(self, other, new_id) ==
    LET w1 == self.intensity_peak.value
        w2 == other.intensity_peak.value
        total_weight == w1 + w2
        c1 == self.center_coordinates
        c2 == other.center_coordinates
        e1 == self.spatial_extent
        e2 == other.spatial_extent
    IN IF total_weight = 0
       THEN Raised(Raise("ValueError", <<"Cannot merge anomalies with zero intensity">>))
       ELSE IF FluxAddError(self.intensity_peak, other.intensity_peak) # NoError
       THEN Raised(FluxAddError(self.intensity_peak, other.intensity_peak))
       ELSE
         LET center == GeographicCoordinates(
                          (w1 * c1.longitude + w2 * c2.longitude) \div total_weight,
                          (w1 * c1.latitude + w2 * c2.latitude) \div total_weight,
                          (w1 * c1.altitude + w2 * c2.altitude) \div total_weight)
             extent == SpatialBounds(
                          Max(e1.longitude_span, e2.longitude_span),
                          Max(e1.latitude_span, e2.latitude_span),
                          Max(e1.altitude_span, e2.altitude_span),
                          (Max(e1.characteristic_length, e2.characteristic_length) * 12)
                              \div 10)
             confidence == Min(self.confidence_level, other.confidence_level)
             merged == SAAAnomaly(new_id, center,
                                  FluxAdd(self.intensity_peak, other.intensity_peak),
                                  extent, confidence)
         IN IF ~ValidCoordinates(center)
            THEN Raised(Raise("ValueError", <<"Invalid coordinates">>))
            ELSE IF SpatialBoundsError(extent) # NoError
            THEN Raised(SpatialBoundsError(extent))
            ELSE IF AnomalyError(confidence) # NoError
            THEN Raised(AnomalyError(confidence))
            ELSE Returned([merged EXCEPT !.domain_events =
                             Append(@, MergedEvent(<<self.id, other.id>>, new_id))])

\* merge_with without the overlap test
merge_with_unchecked(self, other, new_id) == MergeOverlapping(self, other, new_id)

\* SAAAnomaly.merge_with(other); new_id is the uuid4 drawn for the merged entity
merge_with(self, other, new_id) ==
    IF ~overlaps_with(self, other)
    THEN Raised(Raise("ValueError", <<"Cannot merge non-overlapping anomalies">>))
    ELSE MergeOverlapping(self, other, new_id)

Mutated(a) == [kind |-> "mutated", anomaly |-> a, error |-> NoError]

\* update_intensity without the event registration
update_intensity_silent(self, new_intensity) ==
    IF new_intensity.value < 0
    THEN Raised(Raise("ValueError", <<"Intensity cannot be negative">>))
    ELSE Mutated([self EXCEPT !.intensity_peak = new_intensity, !.version = @ + 1])

\* SAAAnomaly.update_intensity(new_intensity)
update_intensity(self, new_intensity) ==
    IF new_intensity.value < 0
    THEN Raised(Raise("ValueError", <<"Intensity cannot be negative">>))
    ELSE Mutated([self EXCEPT
                    !.intensity_peak = new_intensity,
                    !.version = @ + 1,
                    !.domain_events =
                        Append(@, IntensityChangedEvent(self.id, self.intensity_peak.value,
                                                        new_intensity.value))])

\* the body of update_center_position recomputing drift_rate at every call
MoveCenter_always_recomputes(self, new_coordinates, t) ==
    LET distance_moved == distance_to(self.center_coordinates, new_coordinates)
        time_diff == IF self.last_position_update = <<>> THEN 0
                     ELSE t - self.last_position_update[1]
    IN Mutated([self EXCEPT
                  !.center_coordinates = new_coordinates,
                  !.version = @ + 1,
                  !.drift_rate = <<distance_moved, time_diff>>,
                  !.last_position_update = <<t>>,
                  !.domain_events =
                      Append(@, PositionChangedEvent(self.id, self.center_coordinates,
                                                     new_coordinates, distance_moved))])

\* the body of update_center_position after the movement check; t is utcnow().
\* drift_rate is distance_moved / time_diff, kept as the pair of its two terms
MoveCenter(self, new_coordinates, t) ==
    LET distance_moved == distance_to(self.center_coordinates, new_coordinates)
        time_diff == IF self.last_position_update = <<>> THEN 0
                     ELSE t - self.last_position_update[1]
    IN Mutated([self EXCEPT
                  !.center_coordinates = new_coordinates,
                  !.version = @ + 1,
                  !.drift_rate = IF self.last_position_update # <<>> /\ time_diff > 0
                                 THEN <<distance_moved, time_diff>> ELSE @,
                  !.last_position_update = <<t>>,
                  !.domain_events =
                      Append(@, PositionChangedEvent(self.id, self.center_coordinates,
                                                     new_coordinates, distance_moved))])

\* update_center_position without the movement check
update_center_position_unchecked(self, new_coordinates, t) ==
    MoveCenter(self, new_coordinates, t)

\* SAAAnomaly.update_center_position(new_coordinates)
update_center_position(self, new_coordinates, t) ==
    IF distance_to(self.center_coordinates, new_coordinates) > MAX_MOVEMENT_M
    THEN Raised(Raise("ValueError", <<"Anomaly movement too large">>))
    ELSE MoveCenter(self, new_coordinates, t)

-----------------------------------------------------------------------------
(* anomaly_detection_service.py *)

DetectionParameters(sigma, min_extent, conf, merge) ==
    [intensity_threshold_sigma |-> sigma, minimum_extent_m |-> min_extent,
     confidence_threshold |-> conf, merge_distance_m |-> merge]

DefaultParameters ==
    DetectionParameters(DEFAULT_SIGMA, DEFAULT_MIN_EXTENT_M,
                        DEFAULT_CONFIDENCE_THRESHOLD, DEFAULT_MERGE_DISTANCE_M)

\* total_fluxes = [e + p for e, p in zip(electron_fluxes, proton_fluxes)]
TotalFluxes(data) ==
    [i \in 1..Len(data) |-> data[i].electron_flux.value + data[i].proton_flux.value]

SumOfSquares(s) == SumSeq([i \in 1..Len(s) |-> s[i] * s[i]])

\* n^2 * variance of the fluxes: n*sum(x^2) - sum(x)^2
ScaledVariance(fluxes) ==
    Len(fluxes) * SumOfSquares(fluxes) - SumSeq(fluxes) * SumSeq(fluxes)

\* flux > mean_flux, the comparison without the sigma * std_flux term
AboveThreshold_ignores_sigma(flux, fluxes, sigma) ==
    Len(fluxes) * flux - SumSeq(fluxes) > 0

\* flux > threshold, threshold = mean + sigma * std, decided exactly:
\* n*flux - sum > sigma * sqrt(n*sum(x^2) - sum^2)
AboveThreshold(flux, fluxes, sigma) ==
    LET d == Len(fluxes) * flux - SumSeq(fluxes)
    IN /\ d > 0
       /\ d * d > sigma * sigma * ScaledVariance(fluxes)

\* n * threshold
ScaledThreshold(fluxes, sigma) ==
    SumSeq(fluxes) + sigma * ISqrt(ScaledVariance(fluxes))

\* anomaly_score = flux / threshold, in units of 1e-3
AnomalyScore(flux, fluxes, sigma) ==
    (flux * Len(fluxes) * 1000) \div ScaledThreshold(fluxes, sigma)

\* placeholder coordinates of the sample with 0-based index i
PlaceholderCoordinates(i) ==
    GeographicCoordinates(PLACEHOLDER_LON + (i % GRID_COLUMNS) * 1000,
                          PLACEHOLDER_LAT + (i \div GRID_COLUMNS) * 1000,
                          PLACEHOLDER_ALT)

\* _detect_statistical_anomalies: tuples (data_index, anomaly_score, coordinates)
detect_statistical_anomalies(data, p) ==
    LET fluxes == TotalFluxes(data)
        hits == {i \in 1..Len(data) :
                    AboveThreshold(fluxes[i], fluxes, p.intensity_threshold_sigma)}
        all == [i \in 1..Len(data) |->
                    IF i \in hits
                    THEN [data_idx |-> i - 1,
                          score |-> AnomalyScore(fluxes[i], fluxes,
                                                 p.intensity_threshold_sigma),
                          coords |-> PlaceholderCoordinates(i - 1)]
                    ELSE [data_idx |-> i - 1]]
    IN SelectIdx(all, hits, 1)

\* confidence = min(0.95, 0.7 + 0.05 * len(cluster_points)); in binary floating
\* point 0.7 + 0.05*2 and 0.7 + 0.05*4 fall just below 0.8 and 0.9
ClusterConfidence(size) ==
    Min(9500, 7000 + 500 * size - (IF size \in {2, 4} THEN 1 ELSE 0))

\* _create_anomaly_from_cluster
create_anomaly_from_cluster(cluster_points, data, new_id) ==
    IF cluster_points = <<>> THEN ReturnedNone
    ELSE
      LET idx == 1..Len(cluster_points)
          total_weight == SumSeq([k \in idx |-> cluster_points[k].score])
      IN IF total_weight = 0 THEN ReturnedNone
         ELSE
           LET center == GeographicCoordinates(
                   SumSeq([k \in idx |-> cluster_points[k].score
                                           * cluster_points[k].coords.longitude])
                       \div total_weight,
                   SumSeq([k \in idx |-> cluster_points[k].score
                                           * cluster_points[k].coords.latitude])
                       \div total_weight,
                   SumSeq([k \in idx |-> cluster_points[k].score
                                           * cluster_points[k].coords.altitude])
                       \div total_weight)
               max_score == SetMax({cluster_points[k].score : k \in idx})
               reference == total_flux(data[cluster_points[1].data_idx + 1])
               peak == FluxIntensity((reference.value * max_score) \div 1000,
                                     (reference.uncertainty_sq * max_score * max_score)
                                         \div 1000000,
                                     PEAK_CONFIDENCE, DefaultUnits)
               lons == {cluster_points[k].coords.longitude : k \in idx}
               lats == {cluster_points[k].coords.latitude : k \in idx}
               alts == {cluster_points[k].coords.altitude : k \in idx}
               lon_span == SetMax(lons) - SetMin(lons)
               lat_span == SetMax(lats) - SetMin(lats)
               alt_span == SetMax(alts) - SetMin(alts)
               char_length == ISqrt(lon_span * lon_span + lat_span * lat_span)
                                  * KM_PER_DEGREE
               extent == SpatialBounds(lon_span, lat_span, alt_span, char_length)
               confidence == ClusterConfidence(Len(cluster_points))
           IN IF ~ValidCoordinates(center)
              THEN Raised(Raise("ValueError", <<"Invalid coordinates">>))
              ELSE IF ~ValidFluxIntensity(peak)
              THEN Raised(Raise("ValueError", <<"Invalid flux intensity">>))
              ELSE IF SpatialBoundsError(extent) # NoError
              THEN Raised(SpatialBoundsError(extent))
              ELSE IF AnomalyError(confidence) # NoError
              THEN Raised(AnomalyError(confidence))
              ELSE Returned(SAAAnomaly(new_id, center, peak, extent, confidence))

\* the candidates absorbed by the cluster opened at candidate i
ClusterMembers(cands, i, processed, p) ==
    {i} \cup {j \in (i + 1)..Len(cands) :
                 /\ j \notin processed
                 /\ distance_to(cands[i].coords, cands[j].coords) <= p.merge_distance_m}

RECURSIVE ClusterLoop(_, _, _, _, _, _)
\* the loop of _cluster_spatial_anomalies from candidate i on
ClusterLoop(cands, data, p, i, processed, acc) ==
    IF i > Len(cands) THEN [kind |-> "ok", anomalies |-> acc, error |-> NoError]
    ELSE IF i \in processed THEN ClusterLoop(cands, data, p, i + 1, processed, acc)
    ELSE
      LET members == ClusterMembers(cands, i, processed, p)
          r == create_anomaly_from_cluster(SelectIdx(cands, members, 1), data,
                                           Len(acc) + 1)
      IN IF r.kind = "raise"
         THEN [kind |-> "raise", anomalies |-> acc, error |-> r.error]
         ELSE ClusterLoop(cands, data, p, i + 1, processed \cup members,
                          IF r.kind = "anomaly" THEN Append(acc, r.anomaly) ELSE acc)

\* _cluster_spatial_anomalies
cluster_spatial_anomalies(cands, data, p) ==
    IF cands = <<>> THEN [kind |-> "ok", anomalies |-> <<>>, error |-> NoError]
    ELSE ClusterLoop(cands, data, p, 1, {}, <<>>)

\* _validate_anomalies without the is_significant_anomaly check
PassesValidation_no_significance(a, p) ==
    /\ ~(a.spatial_extent.characteristic_length < p.minimum_extent_m)
    /\ ~(a.confidence_level < p.confidence_threshold)

\* the three checks of _validate_anomalies on one anomaly
PassesValidation(a, p) ==
    /\ ~(a.spatial_extent.characteristic_length < p.minimum_extent_m)
    /\ ~(a.confidence_level < p.confidence_threshold)
    /\ is_significant_anomaly(a)

\* _validate_anomalies
validate_anomalies(list, p) ==
    SelectIdx(list, {i \in 1..Len(list) : PassesValidation(list[i], p)}, 1)

RECURSIVE MergeInner_keeps_merged(_, _, _, _, _)
\* the inner loop not marking the anomaly it merged as processed
MergeInner_keeps_merged(list, j, current, processed, next_id) ==
    IF j > Len(list)
    THEN [kind |-> "ok", current |-> current, processed |-> processed,
          next_id |-> next_id, error |-> NoError]
    ELSE IF j \in processed
    THEN MergeInner_keeps_merged(list, j + 1, current, processed, next_id)
    ELSE IF overlaps_with(current, list[j])
    THEN LET r == merge_with(current, list[j], next_id)
         IN IF r.kind = "raise"
            THEN [kind |-> "raise", error |-> r.error]
            ELSE MergeInner_keeps_merged(list, j + 1, r.anomaly, processed, next_id + 1)
    ELSE MergeInner_keeps_merged(list, j + 1, current, processed, next_id)

RECURSIVE MergeInner(_, _, _, _, _)
\* the inner loop of _merge_overlapping_anomalies from index j on
MergeInner(list, j, current, processed, next_id) ==
    IF j > Len(list)
    THEN [kind |-> "ok", current |-> current, processed |-> processed,
          next_id |-> next_id, error |-> NoError]
    ELSE IF j \in processed THEN MergeInner(list, j + 1, current, processed, next_id)
    ELSE IF overlaps_with(current, list[j])
    THEN LET r == merge_with(current, list[j], next_id)
         IN IF r.kind = "raise"
            THEN [kind |-> "raise", error |-> r.error]
            ELSE MergeInner(list, j + 1, r.anomaly, processed \cup {j}, next_id + 1)
    ELSE MergeInner(list, j + 1, current, processed, next_id)

RECURSIVE MergeOuter(_, _, _, _, _)
\* the outer loop of _merge_overlapping_anomalies from index i on
MergeOuter(list, i, processed, merged, next_id) ==
    IF i > Len(list) THEN [kind |-> "ok", anomalies |-> merged, error |-> NoError]
    ELSE IF i \in processed THEN MergeOuter(list, i + 1, processed, merged, next_id)
    ELSE
      LET r == MergeInner(list, i + 1, list[i], processed \cup {i}, next_id)
      IN IF r.kind = "raise"
         THEN [kind |-> "raise", anomalies |-> merged, error |-> r.error]
         ELSE MergeOuter(list, i + 1, r.processed, Append(merged, r.current), r.next_id)

FreshId(list) == 1 + SetMax({0} \cup {list[i].id : i \in 1..Len(list)})

\* _merge_overlapping_anomalies
merge_overlapping_anomalies(list) ==
    IF Len(list) <= 1 THEN [kind |-> "ok", anomalies |-> list, error |-> NoError]
    ELSE MergeOuter(list, 1, {}, <<>>, FreshId(list))

RegionTooLarge == Raise("RegionTooLargeError", <<"Region too large">>)
SourceUnavailable == Raise("DataSourceUnavailableError", <<"Data source unavailable">>)

\* what FluxDataPort.get_flux_in_region can raise (flux_data_port.py)
PortErrors == {RegionTooLarge, SourceUnavailable}

-----------------------------------------------------------------------------
(* saa_analysis_service.py *)

\* _is_valid_flux_data without the data_quality test
is_valid_flux_data_any_quality(d) ==
    /\ d.electron_flux.value >= 0
    /\ d.proton_flux.value >= 0
    /\ d.electron_flux.uncertainty_sq >= 0
    /\ d.proton_flux.uncertainty_sq >= 0

\* SAAAnalysisService._is_valid_flux_data
is_valid_flux_data(d) ==
    /\ d.electron_flux.value >= 0
    /\ d.proton_flux.value >= 0
    /\ d.electron_flux.uncertainty_sq >= 0
    /\ d.proton_flux.uncertainty_sq >= 0
    /\ d.data_quality \in {"high", "medium"}

\* the valid_data list of _retrieve_flux_data
ValidData(data) ==
    SelectIdx(data, {i \in 1..Len(data) : is_valid_flux_data(data[i])}, 1)

\* len(valid_data) < len(flux_data) * 0.8
LowQuality(valid, data) == 10 * Len(valid) < 8 * Len(data)

\* _retrieve_flux_data: except Exception as e: raise AnalysisError(...)
RetrievalFailure(e) ==
    Raise("AnalysisError", Wrap("Failed to retrieve flux data", e.message))

NoFluxData == Raise("AnalysisError", <<"No flux data available for the specified region">>)

\* the outer handler raising AnalysisError without the cause's text
AnalysisFailure_no_cause(e) == Raise("AnalysisError", <<"Analysis failed">>)

\* analyze_region: except Exception as e: raise AnalysisError(f"Analysis failed: {str(e)}")
AnalysisFailure(e) == Raise("AnalysisError", Wrap("Analysis failed", e.message))

\* detect_anomalies: except Exception as e: raise AnomalyDetectionError(...)
DetectionFailure(e) == Raise("AnomalyDetectionError", Wrap("Detection failed", e.message))

\* generate_manifold: except Exception as e: raise ManifoldGenerationError(...)
GenerationFailure(e) ==
    Raise("ManifoldGenerationError", Wrap("Generation failed", e.message))

\* detect_anomalies without its empty-input check
NoInput_never(data) == FALSE

\* detect_anomalies: if not flux_data: return []
NoInput(data) == data = <<>>

\* ManifoldGenerationService.generate_manifold; internal is the exception an inner
\* step raises, or NoError
generate_manifold(data, anoms, internal) ==
    IF data = <<>>
    THEN Raised(Raise("ManifoldGenerationError",
                      <<"No flux data provided for manifold generation">>))
    ELSE IF internal # NoError THEN Raised(GenerationFailure(internal))
    ELSE [kind |-> "ok", error |-> NoError,
          anomaly_markers |-> [i \in 1..Len(anoms) |-> anoms[i].id],
          anomaly_count |-> Len(anoms), data_points |-> Len(data)]

\* the statement order with the overlap merge placed before the validation
StepAfter_merge_first(p) ==
    CASE p = "retrieve" -> "enhance"
      [] p = "enhance" -> "detect"
      [] p = "detect" -> "statistical"
      [] p = "statistical" -> "cluster"
      [] p = "cluster" -> "merge"
      [] p = "merge" -> "validate"
      [] p = "validate" -> "manifold"
      [] p = "manifold" -> "publish"
      [] p = "publish" -> "done"

\* the statement order of analyze_region (steps 1 to 7) and of detect_anomalies
\* (steps 1 to 4): the control point following control point p
StepAfter(p) ==
    CASE p = "retrieve" -> "enhance"
      [] p = "enhance" -> "detect"
      [] p = "detect" -> "statistical"
      [] p = "statistical" -> "cluster"
      [] p = "cluster" -> "validate"
      [] p = "validate" -> "merge"
      [] p = "merge" -> "manifold"
      [] p = "manifold" -> "publish"
      [] p = "publish" -> "done"

Pending == [kind |-> "pending"]
ReturnedValue(v) == [kind |-> "returned", value |-> v, error |-> NoError]
RaisedError(e) == [kind |-> "raised", error |-> e]

NoManifold == [requested |-> FALSE, called |-> FALSE, anomalies |-> <<>>, data |-> "none"]

-----------------------------------------------------------------------------
(* Inputs *)

BaseFlux == 10
HotFlux == 100
ProtonFlux == 5

Sample(e, q) ==
    FluxData(FluxIntensity(e, 1, PEAK_CONFIDENCE, DefaultUnits),
             FluxIntensity(ProtonFlux, 1, PEAK_CONFIDENCE, DefaultUnits), q)

QualityPatterns == {"good", "mixed", "poor", "none"}

QualityOf(pattern, i, n) ==
    CASE pattern = "good" -> "high"
      [] pattern = "mixed" -> IF i = 1 THEN "unknown" ELSE "medium"
      [] pattern = "poor" -> IF i = n THEN "high" ELSE "low"
      [] pattern = "none" -> "low"

\* n samples, the k samples from position s on elevated
MakeSamples(n, s, k, pattern) ==
    [i \in 1..n |-> Sample(IF s <= i /\ i < s + k THEN HotFlux ELSE BaseFlux,
                           QualityOf(pattern, i, n))]

SampleCounts == (0..SmallSamples) \cup {PeakSamples}

SampleLists(patterns) ==
    UNION { UNION { { MakeSamples(n, s, k, q) :
                        s \in 1..(IF k = 0 THEN 1 ELSE Min(n - k + 1, MaxStart)), q \in patterns }
                    : k \in 0..Min(n, MaxHot) }
            : n \in SampleCounts }

WideParameters == DetectionParameters(1, 50000, 9000, 160000)

ParameterSets == {DefaultParameters, WideParameters}

HandlerKinds == {"returns", "raises"}

-----------------------------------------------------------------------------
(* One call of analyze_region or of detect_anomalies *)

InitAnalysis ==
    /\ entry \in {"analyze_region", "detect_anomalies"}
    /\ params \in ParameterSets
    /\ port_data \in SampleLists(IF entry = "analyze_region"
                                 THEN QualityPatterns ELSE {"good"})
    /\ pc = IF entry = "analyze_region" THEN "retrieve" ELSE "detect"
    /\ flux_data = IF entry = "analyze_region" THEN <<>> ELSE port_data
    /\ statistical_anomalies = <<>>
    /\ anomalies = <<>>
    /\ detected = "none"
    /\ manifold = NoManifold
    /\ outcome = Pending
    /\ origin = <<>>
    /\ trace = <<>>
    /\ log = <<>>
    /\ handlers = <<>>
    /\ delivered = <<>>

InitEntityIdle ==
    /\ store = <<>>
    /\ call = [op |-> "none"]

\* no generate_manifold call of its own, no adapter in use, the clock at its origin
InitComponentsIdle ==
    /\ now = 0
    /\ generation = [pc |-> "idle"]
    /\ publisher = [pc |-> "idle"]
    /\ igrf = [pc |-> "idle"]
    /\ ae9 = [pc |-> "idle"]

Init == InitAnalysis /\ InitEntityIdle /\ InitComponentsIdle

\* the call ends by raising e; origin_message is the innermost failure's text
Fail(e, origin_message) ==
    /\ outcome' = RaisedError(e)
    /\ origin' = origin_message
    /\ pc' = "raised"

\* an exception e leaves detect_anomalies: its own handler wraps it, and under
\* analyze_region the outer handler wraps it again
FailDetection(e) ==
    Fail(IF entry = "analyze_region"
         THEN AnalysisFailure(DetectionFailure(e)) ELSE DetectionFailure(e),
         e.message)

\* analyze_region step 1: _retrieve_flux_data and the empty check
Retrieve ==
    /\ pc = "retrieve"
    /\ trace' = Append(trace, "retrieve")
    /\ \E port \in {NoError} \cup PortErrors :
         IF port # NoError
         THEN /\ Fail(AnalysisFailure(RetrievalFailure(port)), port.message)
              /\ UNCHANGED <<flux_data, log>>
         ELSE LET valid == ValidData(port_data)
              IN /\ log' = IF LowQuality(valid, port_data)
                           THEN Append(log, "Low data quality") ELSE log
                 /\ IF valid = <<>>
                    THEN /\ Fail(AnalysisFailure(NoFluxData), NoFluxData.message)
                         /\ UNCHANGED flux_data
                    ELSE /\ flux_data' = valid
                         /\ pc' = StepAfter("retrieve")
                         /\ UNCHANGED <<outcome, origin>>
    /\ UNCHANGED <<entry, params, port_data, statistical_anomalies, anomalies, detected,
                   manifold, handlers, delivered, store, call,
                   componentVars>>

\* analyze_region step 2: _enhance_with_geomagnetic_coordinates; a failing
\* transformation is logged and swallowed
Enhance ==
    /\ pc = "enhance"
    /\ trace' = Append(trace, "enhance")
    /\ \E available \in BOOLEAN :
         log' = IF available THEN log
                ELSE Append(log, "Coordinate transformation unavailable")
    /\ pc' = StepAfter("enhance")
    /\ UNCHANGED <<entry, params, port_data, flux_data, statistical_anomalies, anomalies,
                   detected, manifold, outcome, origin, handlers, delivered, store, call,
                   componentVars>>

\* detect_anomalies with no samples: warning, return []
DetectEmpty ==
    /\ pc = "detect"
    /\ NoInput(flux_data)
    /\ log' = Append(log, "No flux data provided for anomaly detection")
    /\ detected' = <<>>
    /\ IF entry = "detect_anomalies"
       THEN /\ outcome' = ReturnedValue(<<>>)
            /\ pc' = "done"
       ELSE /\ pc' = StepAfter("merge")
            /\ UNCHANGED outcome
    /\ UNCHANGED <<entry, params, port_data, flux_data, statistical_anomalies, anomalies,
                   manifold, origin, trace, handlers, delivered, store, call,
                   componentVars>>

\* detect_anomalies step 1
StatisticalStage ==
    /\ pc = "detect"
    /\ ~NoInput(flux_data)
    /\ trace' = Append(trace, "statistical")
    /\ statistical_anomalies' = detect_statistical_anomalies(flux_data, params)
    /\ pc' = StepAfter("statistical")
    /\ UNCHANGED <<entry, params, port_data, flux_data, anomalies, detected, manifold,
                   outcome, origin, log, handlers, delivered, store, call,
                   componentVars>>

\* detect_anomalies step 2
ClusterStage ==
    /\ pc = "cluster"
    /\ trace' = Append(trace, "cluster")
    /\ LET r == cluster_spatial_anomalies(statistical_anomalies, flux_data, params)
       IN IF r.kind = "raise"
          THEN /\ FailDetection(r.error)
               /\ UNCHANGED anomalies
          ELSE /\ anomalies' = r.anomalies
               /\ pc' = StepAfter("cluster")
               /\ UNCHANGED <<outcome, origin>>
    /\ UNCHANGED <<entry, params, port_data, flux_data, statistical_anomalies, detected,
                   manifold, log, handlers, delivered, store, call,
                   componentVars>>

\* detect_anomalies step 3
ValidateStage ==
    /\ pc = "validate"
    /\ trace' = Append(trace, "validate")
    /\ anomalies' = validate_anomalies(anomalies, params)
    /\ pc' = StepAfter("validate")
    /\ UNCHANGED <<entry, params, port_data, flux_data, statistical_anomalies, detected,
                   manifold, outcome, origin, log, handlers, delivered, store, call,
                   componentVars>>

\* detect_anomalies step 4 and its return
MergeStage ==
    /\ pc = "merge"
    /\ trace' = Append(trace, "merge")
    /\ LET r == merge_overlapping_anomalies(anomalies)
       IN IF r.kind = "raise"
          THEN /\ FailDetection(r.error)
               /\ UNCHANGED <<anomalies, detected>>
          ELSE /\ anomalies' = r.anomalies
               /\ detected' = r.anomalies
               /\ IF entry = "detect_anomalies"
                  THEN /\ outcome' = ReturnedValue(r.anomalies)
                       /\ pc' = "done"
                  ELSE /\ pc' = StepAfter("merge")
                       /\ UNCHANGED outcome
               /\ UNCHANGED origin
    /\ UNCHANGED <<entry, params, port_data, flux_data, statistical_anomalies, manifold,
                   log, handlers, delivered, store, call,
                   componentVars>>

InternalErrors == {Raise("ValueError", <<"array shapes do not match">>)}

\* analyze_region step 4: generate_manifold when include_manifold
Manifold ==
    /\ pc = "manifold"
    /\ \E include_manifold \in BOOLEAN, internal \in {NoError} \cup InternalErrors :
         IF ~include_manifold
         THEN /\ internal = NoError
              /\ manifold' = NoManifold
              /\ trace' = trace
              /\ pc' = StepAfter("manifold")
              /\ UNCHANGED <<outcome, origin>>
         ELSE LET r == generate_manifold(flux_data, detected, internal)
              IN /\ trace' = Append(trace, "manifold")
                 /\ manifold' = [requested |-> TRUE, called |-> TRUE,
                                 anomalies |-> detected,
                                 data |-> IF r.kind = "ok" THEN r ELSE "none"]
                 /\ IF r.kind = "raise"
                    THEN Fail(AnalysisFailure(r.error), internal.message)
                    ELSE /\ pc' = StepAfter("manifold")
                         /\ UNCHANGED <<outcome, origin>>
    /\ UNCHANGED <<entry, params, port_data, flux_data, statistical_anomalies, anomalies,
                   detected, log, handlers, delivered, store, call,
                   componentVars>>

\* DomainEventPublisher.subscribe("analysis_completed", handler).  Subscriptions
\* made earlier commute with the steps of the call, none of which reads _handlers.
Subscribe ==
    /\ pc = "publish"
    /\ Len(handlers) < MaxHandlers
    /\ \E h \in HandlerKinds : handlers' = Append(handlers, h)
    /\ UNCHANGED <<entry, params, port_data, pc, flux_data, statistical_anomalies,
                   anomalies, detected, manifold, outcome, origin, trace, log, delivered,
                   store, call,
                   componentVars>>

\* DomainEventPublisher.publish: every handler of the event type is awaited in
\* order; an exception of a handler is printed and swallowed
publish(hs) == [i \in 1..Len(hs) |-> [handler |-> i, raised |-> hs[i] = "raises"]]

SinkFailure == Raise("RuntimeError", <<"event sink failure">>)

\* the SAAAnalysisResult assembled in step 6
AnalysisResult(anoms, m, data) ==
    [anomalies |-> anoms, manifold_data |-> m.data, data_points_processed |-> Len(data)]

\* analyze_region steps 5 to 7: assemble the result, publish AnalysisCompleted,
\* return.  _event_publisher is a constructor argument: its publish either
\* dispatches as DomainEventPublisher.publish does, or raises.
Publish ==
    /\ pc = "publish"
    /\ trace' = Append(trace, "publish")
    /\ \E sink \in {NoError, SinkFailure} :
         IF sink # NoError
         THEN /\ Fail(AnalysisFailure(sink), sink.message)
              /\ UNCHANGED delivered
         ELSE /\ delivered' = publish(handlers)
              /\ outcome' = ReturnedValue(AnalysisResult(detected, manifold, flux_data))
              /\ pc' = StepAfter("publish")
              /\ UNCHANGED origin
    /\ UNCHANGED <<entry, params, port_data, flux_data, statistical_anomalies, anomalies,
                   detected, manifold, log, handlers, store, call,
                   componentVars>>

Next ==
    \/ Retrieve
    \/ Enhance
    \/ DetectEmpty
    \/ StatisticalStage
    \/ ClusterStage
    \/ ValidateStage
    \/ MergeStage
    \/ Manifold
    \/ Subscribe
    \/ Publish

Spec == Init /\ [][Next]_vars

-----------------------------------------------------------------------------
(* SAAAnomaly entities and the list stages of detect_anomalies on their own *)

CatalogueLatitudes == {-20000, -19900, -19000}

SmallExtent == SpatialBounds(40, 20, 1, 5000)
MediumExtent == SpatialBounds(1000, 500, 10, 60000)
LargeExtent == SpatialBounds(500, 2000, 5, 120000)

\* (spatial extent, peak intensity, confidence) of the anomalies drawn
Profiles ==
    { <<MediumExtent, FluxIntensity(100, 16, PEAK_CONFIDENCE, DefaultUnits), 9500>>,
      <<LargeExtent, FluxIntensity(40, 9, 9000, DefaultUnits), 9000>>,
      <<SmallExtent, FluxIntensity(100, 16, PEAK_CONFIDENCE, DefaultUnits), 9500>>,
      <<MediumExtent, FluxIntensity(100, 3600, PEAK_CONFIDENCE, DefaultUnits), 9500>>,
      <<MediumExtent, FluxIntensity(100, 16, PEAK_CONFIDENCE, DefaultUnits), 8500>>,
      <<MediumExtent, FluxIntensity(0, 0, PEAK_CONFIDENCE, DefaultUnits), 9500>>,
      <<MediumExtent, FluxIntensity(100, 16, PEAK_CONFIDENCE, OtherUnits), 9500>> }

\* the anomalies drawn, all centred on the meridian of the placeholder origin
Catalogue ==
    { SAAAnomaly(0, GeographicCoordinates(PLACEHOLDER_LON, lat, PLACEHOLDER_ALT),
                 p[2], p[1], p[3]) : lat \in CatalogueLatitudes, p \in Profiles }

\* a with the identity id (the uuid4 of its construction)
WithId(a, id) == [a EXCEPT !.id = id, !.domain_events = <<DetectedEvent(id)>>]

RECURSIVE ListsUpTo(_)
\* the lists of at most n catalogue anomalies, identified by their position
ListsUpTo(n) ==
    IF n = 0 THEN {<<>>}
    ELSE LET shorter == ListsUpTo(n - 1)
         IN shorter \cup { Append(l, WithId(a, n)) :
                             l \in {x \in shorter : Len(x) = n - 1}, a \in Catalogue }

InitAnalysisIdle ==
    /\ entry = "none"
    /\ params = DefaultParameters
    /\ port_data = <<>>
    /\ pc = "idle"
    /\ flux_data = <<>>
    /\ statistical_anomalies = <<>>
    /\ anomalies = <<>>
    /\ detected = "none"
    /\ manifold = NoManifold
    /\ outcome = Pending
    /\ origin = <<>>
    /\ trace = <<>>
    /\ log = <<>>
    /\ handlers = <<>>
    /\ delivered = <<>>

InitEntity ==
    /\ InitAnalysisIdle
    /\ InitComponentsIdle
    /\ store \in {l \in ListsUpTo(2) : Len(l) = 2}
    /\ call = [op |-> "none"]

\* self.merge_with(other) on two entities of the store; the merged entity joins it
MergeWith ==
    /\ Len(store) < 2 + MaxAnomalies
    /\ \E i \in 1..Len(store), j \in 1..Len(store) :
         LET r == merge_with(store[i], store[j], FreshId(store))
         IN /\ call' = [op |-> "merge_with", self |-> i, other |-> j,
                        before |-> store, result |-> r]
            /\ store' = IF r.kind = "anomaly" THEN Append(store, r.anomaly) ELSE store
    /\ UNCHANGED <<analysisVars, componentVars>>

NextEntity == MergeWith

SpecEntity == InitEntity /\ [][NextEntity]_vars

InitStages ==
    /\ InitAnalysisIdle
    /\ InitComponentsIdle
    /\ store \in ListsUpTo(MaxList)
    /\ call = [op |-> "none"]

\* detect_anomalies step 3 on the clustered list held in store
ValidateList ==
    /\ call.op = "none"
    /\ call' = [op |-> "validate", result |-> validate_anomalies(store, params)]
    /\ UNCHANGED <<store>>
    /\ UNCHANGED <<analysisVars, componentVars>>

\* detect_anomalies step 4 on the validated list
MergeList ==
    /\ call.op = "validate"
    /\ call' = [op |-> "merge", input |-> call.result,
                result |-> merge_overlapping_anomalies(call.result)]
    /\ UNCHANGED <<store>>
    /\ UNCHANGED <<analysisVars, componentVars>>

NextStages == ValidateList \/ MergeList

SpecStages == InitStages /\ [][NextStages]_vars

-----------------------------------------------------------------------------
(* The life of SAAAnomaly entities: updates, merges, the passing of time *)

\* the two entities the run starts with: constructed, not yet mutated
LifecycleCatalogue ==
    { SAAAnomaly(0, GeographicCoordinates(PLACEHOLDER_LON, -20000, PLACEHOLDER_ALT),
                 FluxIntensity(100, 16, PEAK_CONFIDENCE, DefaultUnits), MediumExtent, 9500),
      SAAAnomaly(0, GeographicCoordinates(PLACEHOLDER_LON, -19900, PLACEHOLDER_ALT),
                 FluxIntensity(40, 9, 9000, DefaultUnits), LargeExtent, 9000) }

\* arguments of update_intensity
NewIntensities ==
    { FluxIntensity(40, 9, 9000, DefaultUnits),
      FluxIntensity(0, 0, PEAK_CONFIDENCE, DefaultUnits) }

\* arguments of update_center_position: points of the same meridian, 999.98 km,
\* 1000.09 km and about 2000 km north of latitude -20
NewCenters ==
    { GeographicCoordinates(PLACEHOLDER_LON, lat, PLACEHOLDER_ALT) :
        lat \in {-11007, -11006, -2000} }

\* successful mutations so far (_version starts at 1 and counts them)
Mutations(list) == SumSeq([i \in 1..Len(list) |-> list[i].version - 1])

InitLifecycle ==
    /\ InitAnalysisIdle
    /\ InitComponentsIdle
    /\ \E a \in LifecycleCatalogue, b \in LifecycleCatalogue :
         store = <<WithId(a, 1), WithId(b, 2)>>
    /\ call = [op |-> "none"]

\* store[i].update_intensity(x)
UpdateIntensity ==
    /\ \E i \in 1..Len(store), x \in NewIntensities :
         LET r == update_intensity(store[i], x)
         IN /\ r.kind = "mutated" => Mutations(store) < MaxMutations
            /\ call' = [op |-> "update_intensity", self |-> i, arg |-> x,
                        before |-> store, result |-> r]
            /\ store' = IF r.kind = "mutated" THEN [store EXCEPT ![i] = r.anomaly]
                         ELSE store
    /\ UNCHANGED <<analysisVars, componentVars>>

\* store[i].update_center_position(c)
UpdateCenterPosition ==
    /\ \E i \in 1..Len(store), c \in NewCenters :
         LET r == update_center_position(store[i], c, now)
         IN /\ r.kind = "mutated" => Mutations(store) < MaxMutations
            /\ call' = [op |-> "update_center_position", self |-> i, arg |-> c,
                        before |-> store, result |-> r]
            /\ store' = IF r.kind = "mutated" THEN [store EXCEPT ![i] = r.anomaly]
                         ELSE store
    /\ UNCHANGED <<analysisVars, componentVars>>

\* time passes between two calls
Tick ==
    /\ now < MaxTicks
    /\ now' = now + 1
    /\ UNCHANGED <<analysisVars, entityVars, generation, igrf, ae9, publisher>>

\* store[1].merge_with(store[2]), once; the merged entity joins the store
MergeFirstTwo ==
    /\ Len(store) = 2
    /\ LET r == merge_with(store[1], store[2], FreshId(store))
       IN /\ r.kind = "anomaly"
          /\ call' = [op |-> "merge_with", self |-> 1, other |-> 2,
                      before |-> store, result |-> r]
          /\ store' = Append(store, r.anomaly)
    /\ UNCHANGED <<analysisVars, componentVars>>

NextLifecycle ==
    \/ UpdateIntensity
    \/ UpdateCenterPosition
    \/ Tick
    \/ MergeFirstTwo

SpecLifecycle == InitLifecycle /\ [][NextLifecycle]_vars

-----------------------------------------------------------------------------
(* Claims *)

Range(s) == {s[i] : i \in 1..Len(s)}
Last(s) == s[Len(s)]

NoUsableSample ==
    \A i \in 1..Len(port_data) : port_data[i].data_quality \notin {"high", "medium"}

DetectionSteps == {"statistical", "cluster", "validate", "merge"}

\* C1: when no sample of the region passes the validity/quality filter (the port
\* returning an empty list included), analyze_region ends by raising AnalysisError,
\* never returns a result, and runs neither a detection step nor generate_manifold.
C1_NoValidSamplesFails ==
    (entry = "analyze_region" /\ NoUsableSample) =>
        /\ pc \in {"retrieve", "raised"}
        /\ outcome.kind # "returned"
        /\ pc = "raised" => (outcome.kind = "raised"
                             /\ outcome.error.type = "AnalysisError")
        /\ Range(trace) \subseteq {"retrieve"}
        /\ detected = "none"
        /\ ~manifold.called

\* C1 witness: the port returned samples, none of them valid, and the call raised
\* the AnalysisError of the empty check
C1_Witness ==
    /\ entry = "analyze_region"
    /\ port_data # <<>>
    /\ NoUsableSample
    /\ pc = "raised"
    /\ origin = NoFluxData.message

\* C2: a call of analyze_region that fails ends by raising AnalysisError whose
\* message contains the message of the failure that caused it, whichever step
\* (retrieval, detection, manifold generation) raised; a call in which a step
\* failed never returns a result.
C2_FailuresBecomeAnalysisError ==
    entry = "analyze_region" =>
        /\ pc = "raised" =>
             /\ outcome.kind = "raised"
             /\ outcome.error.type = "AnalysisError"
             /\ origin # <<>>
             /\ Contains(outcome.error.message, origin)
        /\ origin # <<>> => (pc = "raised" /\ outcome.kind = "raised")

\* C2 witness: generate_manifold failed after retrieval and detection succeeded
C2_Witness ==
    /\ entry = "analyze_region"
    /\ pc = "raised"
    /\ manifold.called
    /\ Last(trace) = "manifold"
    /\ outcome.error.message =
           <<"Analysis failed", "Generation failed", "array shapes do not match">>

\* C3 (as claimed): once retrieval, detection and manifold generation have
\* succeeded and the completion event is being published, analyze_region returns
\* the assembled result, also when publish raises.
C3_PublishFailureReturnsResult ==
    (entry = "analyze_region" /\ trace # <<>> /\ Last(trace) = "publish") =>
        outcome.kind = "returned"

StepRank(s) ==
    CASE s = "retrieve" -> 1
      [] s = "enhance" -> 2
      [] s = "statistical" -> 3
      [] s = "cluster" -> 4
      [] s = "validate" -> 5
      [] s = "merge" -> 6
      [] s = "manifold" -> 7
      [] s = "publish" -> 8

\* C4: the steps of one call run in the order retrieval, transformation check,
\* statistical pass, clustering, validation, overlap merge, manifold generation,
\* publication, none of them twice and no detection step without the one before
\* it; generate_manifold is called only after detect_anomalies has returned, with
\* the list detect_anomalies returned, which is the list of the returned result;
\* the completion event is published after detection and after the manifold step.
C4_StepOrder ==
    /\ \A i, j \in 1..Len(trace) : i < j => StepRank(trace[i]) < StepRank(trace[j])
    /\ \A i \in 1..Len(trace) :
         (trace[i] \in DetectionSteps \ {"statistical"}) =>
             (i > 1 /\ StepRank(trace[i - 1]) = StepRank(trace[i]) - 1)
    /\ manifold.called =>
         /\ detected # "none"
         /\ DetectionSteps \subseteq Range(trace)
         /\ manifold.anomalies = detected
    /\ "publish" \in Range(trace) =>
         /\ detected # "none"
         /\ DetectionSteps \subseteq Range(trace)
         /\ manifold.requested => "manifold" \in Range(trace)
    /\ (entry = "analyze_region" /\ outcome.kind = "returned") =>
         /\ Last(trace) = "publish"
         /\ outcome.value.anomalies = detected
         /\ manifold.called => manifold.anomalies = outcome.value.anomalies

\* C4 witness: a call with include_manifold that returned its result
C4_Witness ==
    /\ entry = "analyze_region"
    /\ pc = "done"
    /\ manifold.called
    /\ trace = <<"retrieve", "enhance", "statistical", "cluster", "validate", "merge",
                 "manifold", "publish">>

\* the outlier pass found one group of at least five neighbouring samples of one
\* grid row: as a cluster it has confidence 0.95 and spans more than 400 km
SinglePeak ==
    LET c == statistical_anomalies
    IN /\ Len(c) >= 5
       /\ \A k \in 1..(Len(c) - 1) : c[k + 1].data_idx = c[k].data_idx + 1
       /\ \A k \in 1..Len(c) : c[k].coords.latitude = c[1].coords.latitude

\* C5 (as claimed): with default parameters, when the outlier pass yields a single
\* localized group of outliers large enough to pass validation, detect_anomalies
\* does not fail and returns exactly one anomaly, centred within the group.
C5_SinglePeakOneAnomaly ==
    (params = DefaultParameters /\ SinglePeak /\ "cluster" \in Range(trace)) =>
        /\ pc # "raised"
        /\ detected # "none" =>
             /\ Len(detected) = 1
             /\ detected[1].center_coordinates.longitude
                    >= statistical_anomalies[1].coords.longitude
             /\ detected[1].center_coordinates.longitude
                    <= Last(statistical_anomalies).coords.longitude

\* C6 (as claimed): a cluster from which no anomaly can be built (a single
\* candidate, a bounding box with a zero span) is skipped: clustering does not
\* make detect_anomalies fail.
C6_DegenerateClusterSkipped ==
    (trace # <<>> /\ Last(trace) = "cluster") => pc # "raised"

\* C7: detect_anomalies called with an empty sample list returns the empty list,
\* raises nothing and executes no step of the pipeline.
C7_EmptyInputReturnsEmpty ==
    (entry = "detect_anomalies" /\ port_data = <<>>) =>
        /\ trace = <<>>
        /\ statistical_anomalies = <<>>
        /\ pc \in {"detect", "done"}
        /\ outcome.kind # "raised"
        /\ pc = "done" => outcome = ReturnedValue(<<>>)

\* C7 witness: the call with no samples has returned
C7_Witness ==
    /\ entry = "detect_anomalies"
    /\ port_data = <<>>
    /\ pc = "done"
    /\ outcome.kind = "returned"
    /\ log = <<"No flux data provided for anomaly detection">>

\* C8: every anomaly in the list that the validation and overlap-merge steps of
\* detect_anomalies hand back, merged anomalies included, has characteristic_length
\* >= minimum_extent_km and confidence_level >= confidence_threshold, within (0, 1],
\* and is significant: peak intensity above twice its uncertainty, confidence >= 0.9
\* and characteristic_length > 10 km.
C8_ReturnedAnomaliesValid ==
    (call.op = "merge" /\ call.result.kind = "ok") =>
        \A i \in 1..Len(call.result.anomalies) :
            LET a == call.result.anomalies[i]
                f == a.intensity_peak
            IN /\ a.spatial_extent.characteristic_length >= params.minimum_extent_m
               /\ a.confidence_level >= params.confidence_threshold
               /\ 0 < a.confidence_level /\ a.confidence_level <= 10000
               /\ IF f.uncertainty_sq = 0 THEN f.value > 0
                  ELSE f.value * f.value > 4 * f.uncertainty_sq
               /\ a.confidence_level >= 9000
               /\ a.spatial_extent.characteristic_length > 10000

\* C8 witness: of three clustered anomalies one was rejected and the other two were
\* merged into the single anomaly returned
C8_Witness ==
    /\ call.op = "merge"
    /\ call.result.kind = "ok"
    /\ Len(store) = 3
    /\ Len(call.input) = 2
    /\ Len(call.result.anomalies) = 1
    /\ Len(call.result.anomalies[1].domain_events) = 2

CentreDistance(a, b) == distance_to(a.center_coordinates, b.center_coordinates)
CombinedLength(a, b) ==
    a.spatial_extent.characteristic_length + b.spatial_extent.characteristic_length

\* C9: merge_with on two anomalies whose centre distance is at least a tenth of the
\* sum of their characteristic lengths raises ValueError, creates no anomaly and
\* leaves both operands, their event logs included, as they were.
C9_NonOverlappingMergeFails ==
    (/\ call.op = "merge_with"
     /\ 10 * CentreDistance(call.before[call.self], call.before[call.other])
            >= CombinedLength(call.before[call.self], call.before[call.other])) =>
        /\ call.result.kind = "raise"
        /\ call.result.error.type = "ValueError"
        /\ store = call.before

\* C9 witness: a merge of two anomalies 11 km apart with 5 km extents was refused
C9_Witness ==
    /\ call.op = "merge_with"
    /\ call.self # call.other
    /\ CentreDistance(store[call.self], store[call.other]) > 0
    /\ 10 * CentreDistance(store[call.self], store[call.other])
           >= CombinedLength(store[call.self], store[call.other])
    /\ call.result.kind = "raise"
    /\ call.result.error.message = <<"Cannot merge non-overlapping anomalies">>

\* the merged anomaly m that C10 describes for the operands a and b
MergedAsClaimed(a, b, m, known) ==
    /\ m.id \notin {known[k].id : k \in 1..Len(known)}
    /\ m.intensity_peak.value = a.intensity_peak.value + b.intensity_peak.value
    /\ m.intensity_peak.uncertainty_sq
           = a.intensity_peak.uncertainty_sq + b.intensity_peak.uncertainty_sq
    /\ m.intensity_peak.confidence_level
           = Min(a.intensity_peak.confidence_level, b.intensity_peak.confidence_level)
    /\ m.intensity_peak.units = a.intensity_peak.units
    /\ m.spatial_extent.characteristic_length
           >= Max(a.spatial_extent.characteristic_length,
                  b.spatial_extent.characteristic_length)
    /\ m.spatial_extent.longitude_span
           = Max(a.spatial_extent.longitude_span, b.spatial_extent.longitude_span)
    /\ m.spatial_extent.latitude_span
           = Max(a.spatial_extent.latitude_span, b.spatial_extent.latitude_span)
    /\ m.spatial_extent.altitude_span
           = Max(a.spatial_extent.altitude_span, b.spatial_extent.altitude_span)
    /\ m.confidence_level = Min(a.confidence_level, b.confidence_level)

\* m is what b.merge_with(a) gives, apart from the order of the recorded ids
SameAsReverse(a, b, m) ==
    LET r == merge_with(b, a, m.id)
    IN /\ r.kind = "anomaly"
       /\ [r.anomaly EXCEPT !.domain_events = <<>>] = [m EXCEPT !.domain_events = <<>>]
       /\ r.anomaly.domain_events
              = <<DetectedEvent(m.id), MergedEvent(<<b.id, a.id>>, m.id)>>
       /\ m.domain_events = <<DetectedEvent(m.id), MergedEvent(<<a.id, b.id>>, m.id)>>

OverlappingCall ==
    /\ call.op = "merge_with"
    /\ 10 * CentreDistance(call.before[call.self], call.before[call.other])
           < CombinedLength(call.before[call.self], call.before[call.other])

-----------------------------------------------------------------------------
(* manifold_generation_service.py: one call of generate_manifold, step by step *)

\* generate_manifold without its empty-input check
NoManifoldInput_never(data) == FALSE

\* generate_manifold: if not flux_data
NoManifoldInput(data) == data = <<>>

\* FluxData.total_flux: the ValueError it raises, or NoError
total_flux_error(d) ==
    IF d.electron_flux.units # d.proton_flux.units
    THEN Raise("ValueError", <<"Cannot add fluxes with different units">>)
    ELSE NoError

\* the first sample whose total_flux() raises, 0 when none does
FirstFailingSample(data) ==
    IF \E i \in 1..Len(data) : total_flux_error(data[i]) # NoError
    THEN SetMin({i \in 1..Len(data) : total_flux_error(data[i]) # NoError})
    ELSE 0

\* np.max of an empty array
EmptyReduction ==
    Raise("ValueError", <<"zero-size array to reduction operation maximum which has no identity">>)

\* np.percentile of an empty array, where the library raises instead of giving nan
EmptyPercentile == Raise("IndexError", <<"index -1 is out of bounds for axis 0 with size 0">>)

\* resolution or (50, 50, 10); a tuple is never falsy, None gives the default
DefaultResolution == <<50, 50, 10>>
Resolutions == {DefaultResolution, <<2, 2, 1>>, <<0, 50, 10>>}

\* _create_regular_grid: len(coords)
GridPoints(resolution) == resolution[1] * resolution[2] * resolution[3]

ManifoldSample(e, p, pu) ==
    FluxData(FluxIntensity(e, 1, PEAK_CONFIDENCE, DefaultUnits),
             FluxIntensity(p, 1, PEAK_CONFIDENCE, pu), "high")

\* samples: an ordinary one, one without flux, one whose two fluxes differ in units
ManifoldSamples ==
    { ManifoldSample(BaseFlux, ProtonFlux, DefaultUnits),
      ManifoldSample(0, 0, DefaultUnits),
      ManifoldSample(BaseFlux, ProtonFlux, OtherUnits) }

RECURSIVE ManifoldInputs(_)
ManifoldInputs(n) ==
    IF n = 0 THEN {<<>>}
    ELSE LET shorter == ManifoldInputs(n - 1)
         IN shorter \cup { Append(l, d) : l \in {x \in shorter : Len(x) = n - 1},
                                          d \in ManifoldSamples }

MarkedAnomalies ==
    { <<>>, <<WithId(SAAAnomaly(0, GeographicCoordinates(PLACEHOLDER_LON, PLACEHOLDER_LAT,
                                                          PLACEHOLDER_ALT),
                                 FluxIntensity(100, 16, PEAK_CONFIDENCE, DefaultUnits),
                                 MediumExtent, 9500), 1)>> }

\* _create_base_surface: the rectangle at mean altitude, its corners given in
\* units of the region's spans (0 the minimum, 1 the maximum), and its two faces
create_base_surface ==
    [vertices |-> << <<0, 0>>, <<1, 0>>, <<1, 1>>, <<0, 1>> >>,
     faces |-> { <<0, 1, 2>>, <<0, 2, 3>> }]

\* grid points of _create_regular_grid as index triples <<lon, lat, alt>>; the
\* significant points are the grid points whose interpolated flux reaches the
\* 75th percentile, a selection that depends on the interpolator
SignificantSelections ==
    { << <<0, 0, 0>> >>,
      << <<0, 0, 0>>, <<1, 0, 0>> >>,
      << <<0, 0, 0>>, <<1, 0, 0>>, <<2, 0, 0>> >>,
      << <<0, 0, 0>>, <<1, 0, 0>>, <<0, 1, 0>> >>,
      << <<0, 0, 0>>, <<1, 0, 0>>, <<0, 1, 0>>, <<1, 1, 0>> >>,
      << <<0, 0, 0>>, <<2, 0, 0>>, <<0, 2, 0>>, <<1, 1, 0>> >>,
      << <<0, 0, 0>>, <<2, 0, 0>>, <<0, 2, 0>>, <<2, 2, 0>>, <<1, 1, 0>> >>,
      << <<0, 0, 0>>, <<0, 0, 1>>, <<1, 0, 0>>, <<0, 1, 0>> >> }

\* the selections that lie on the grid of the given resolution
SignificantPoints(resolution) ==
    { points \in SignificantSelections :
        \A i \in 1..Len(points) : \A k \in 1..3 : points[i][k] < resolution[k] }

\* points_2d = points[:, :2]
Projection(point) == <<point[1], point[2]>>

\* twice the signed area of the triangle a, b, c
Cross(a, b, c) == (b[1] - a[1]) * (c[2] - a[2]) - (b[2] - a[2]) * (c[1] - a[1])

\* c lies in the bounding box of a and b
Between(a, b, c) ==
    /\ Min(a[1], b[1]) <= c[1] /\ c[1] <= Max(a[1], b[1])
    /\ Min(a[2], b[2]) <= c[2] /\ c[2] <= Max(a[2], b[2])

\* ConvexHull(points_2d) raises QhullError: fewer than three distinct positions,
\* or all of them on one line
QhullFails(points) ==
    \A i, j, k \in 1..Len(points) :
        Cross(Projection(points[i]), Projection(points[j]), Projection(points[k])) = 0

\* of several points with one 2D position the hull names one; which one is
\* the library's choice
Representatives(points) ==
    { keep \in SUBSET (1..Len(points)) :
        /\ \A i \in 1..Len(points) :
              \E k \in keep : Projection(points[k]) = Projection(points[i])
        /\ \A k, l \in keep :
              Projection(points[k]) = Projection(points[l]) => k = l }

\* hull.simplices of a 2D hull: one row per facet of the hull, and the facets of
\* a polygon are its edges, so a row holds the 0-based indices of the two end
\* points of an edge
HullSimplices(points, keep) ==
    { <<i - 1, j - 1>> : <<i, j>> \in
        { e \in keep \X keep :
            /\ e[1] # e[2]
            /\ \A k \in keep \ {e[1], e[2]} :
                  LET x == Cross(Projection(points[e[1]]), Projection(points[e[2]]),
                                 Projection(points[k]))
                  IN \/ x > 0
                     \/ x = 0 /\ Between(Projection(points[e[1]]),
                                         Projection(points[e[2]]),
                                         Projection(points[k])) } }

\* _create_flux_surface: one vertex per significant point (its altitude, weighted
\* by the flux, is not carried), faces = hull.simplices; the base surface when
\* the hull raises
create_flux_surface(points, keep) ==
    IF QhullFails(points)
    THEN create_base_surface
    ELSE [vertices |-> [i \in 1..Len(points) |-> Projection(points[i])],
          faces |-> HullSimplices(points, keep)]

InitManifold ==
    /\ InitAnalysisIdle
    /\ InitEntityIdle
    /\ now = 0
    /\ igrf = [pc |-> "idle"]
    /\ ae9 = [pc |-> "idle"]
    /\ publisher = [pc |-> "idle"]
    /\ \E data \in ManifoldInputs(MaxManifoldSamples), res \in Resolutions,
          anoms \in MarkedAnomalies :
         generation = [pc |-> "start", flux_data |-> data, resolution |-> res,
                       anomalies |-> anoms, steps |-> <<>>, grid_points |-> 0,
                       method |-> "none", positive |-> FALSE, surface |-> "none",
                       vertices |-> <<>>, faces |-> {},
                       markers |-> <<>>, result |-> Pending]

\* except Exception as e: raise ManifoldGenerationError(f"Generation failed: {str(e)}")
GenerationRaises(step, e) ==
    generation' = [generation EXCEPT !.pc = "raised",
                                     !.steps = Append(@, step),
                                     !.result = RaisedError(GenerationFailure(e))]

\* the empty-input check at the head of generate_manifold
GenerationStart ==
    /\ generation.pc = "start"
    /\ generation' =
         IF NoManifoldInput(generation.flux_data)
         THEN [generation EXCEPT
                 !.pc = "raised",
                 !.result = RaisedError(Raise("ManifoldGenerationError",
                                <<"No flux data provided for manifold generation">>))]
         ELSE [generation EXCEPT !.pc = "grid"]
    /\ UNCHANGED <<analysisVars, entityVars, now, igrf, ae9, publisher>>

\* step 1: _create_regular_grid
CreateGrid ==
    /\ generation.pc = "grid"
    /\ generation' = [generation EXCEPT !.pc = "interpolate",
                                        !.steps = Append(@, "grid"),
                                        !.grid_points = GridPoints(generation.resolution)]
    /\ UNCHANGED <<analysisVars, entityVars, now, igrf, ae9, publisher>>

\* step 2: _interpolate_flux_field.  positive records whether some interpolated
\* value is > 0; with several samples it depends on the interpolator, which may
\* also raise and be replaced by the nearest-neighbour assignment
InterpolateFluxField ==
    /\ generation.pc = "interpolate"
    /\ LET data == generation.flux_data
           some_flux == \E i \in 1..Len(data) :
                           data[i].electron_flux.value + data[i].proton_flux.value > 0
       IN IF data = <<>>
          THEN generation' = [generation EXCEPT !.pc = "mesh",
                                                !.steps = Append(@, "interpolate"),
                                                !.method = "zeros"]
          ELSE IF FirstFailingSample(data) # 0
          THEN GenerationRaises("interpolate",
                                total_flux_error(data[FirstFailingSample(data)]))
          ELSE IF Len(data) = 1
          THEN IF generation.grid_points = 0
               THEN GenerationRaises("interpolate", EmptyReduction)
               ELSE generation' = [generation EXCEPT !.pc = "mesh",
                                                     !.steps = Append(@, "interpolate"),
                                                     !.method = "falloff",
                                                     !.positive = some_flux]
          ELSE \E rbf_raises \in BOOLEAN, above_zero \in BOOLEAN :
                 /\ above_zero => (some_flux /\ generation.grid_points > 0)
                 /\ generation' = [generation EXCEPT
                                     !.pc = "mesh",
                                     !.steps = Append(@, "interpolate"),
                                     !.method = IF rbf_raises THEN "nearest" ELSE "rbf",
                                     !.positive = above_zero]
    /\ UNCHANGED <<analysisVars, entityVars, now, igrf, ae9, publisher>>

\* step 3: _generate_mesh_geometry.  Without a positive value the percentile is
\* taken of an empty array (nan, or an exception, depending on the library);
\* a failing triangulation falls back to the base surface
GenerateMeshGeometry ==
    /\ generation.pc = "mesh"
    /\ IF ~generation.positive
       THEN \E percentile_raises \in BOOLEAN :
              IF percentile_raises
              THEN GenerationRaises("mesh", EmptyPercentile)
              ELSE generation' = [generation EXCEPT
                                    !.pc = "colour",
                                    !.steps = Append(@, "mesh"),
                                    !.surface = "base",
                                    !.vertices = create_base_surface.vertices,
                                    !.faces = create_base_surface.faces]
       ELSE \E points \in SignificantPoints(generation.resolution) :
            \E keep \in Representatives(points) :
              LET mesh == create_flux_surface(points, keep)
              IN generation' = [generation EXCEPT
                                  !.pc = "colour",
                                  !.steps = Append(@, "mesh"),
                                  !.surface = IF QhullFails(points) THEN "base"
                                              ELSE "flux",
                                  !.vertices = mesh.vertices,
                                  !.faces = mesh.faces]
    /\ UNCHANGED <<analysisVars, entityVars, now, igrf, ae9, publisher>>

\* step 4: _calculate_color_mapping
CalculateColorMapping ==
    /\ generation.pc = "colour"
    /\ generation' = [generation EXCEPT !.pc = "markers", !.steps = Append(@, "colour")]
    /\ UNCHANGED <<analysisVars, entityVars, now, igrf, ae9, publisher>>

\* step 5: _create_anomaly_markers
CreateAnomalyMarkers ==
    /\ generation.pc = "markers"
    /\ generation' = [generation EXCEPT
                        !.pc = "metadata",
                        !.steps = Append(@, "markers"),
                        !.markers = [i \in 1..Len(generation.anomalies) |->
                                        generation.anomalies[i].id]]
    /\ UNCHANGED <<analysisVars, entityVars, now, igrf, ae9, publisher>>

\* step 6 and the return: _generate_metadata, manifold_data
GenerateMetadata ==
    /\ generation.pc = "metadata"
    /\ IF FirstFailingSample(generation.flux_data) # 0
       THEN GenerationRaises("metadata",
               total_flux_error(generation.flux_data[FirstFailingSample(generation.flux_data)]))
       ELSE generation' = [generation EXCEPT
                             !.pc = "done",
                             !.steps = Append(@, "metadata"),
                             !.result = ReturnedValue(
                                 [surface |-> generation.surface,
                                  geometry |-> [vertices |-> generation.vertices,
                                                faces |-> generation.faces],
                                  anomaly_markers |-> generation.markers,
                                  data_points_used |-> Len(generation.flux_data)])]
    /\ UNCHANGED <<analysisVars, entityVars, now, igrf, ae9, publisher>>

NextManifold ==
    \/ GenerationStart
    \/ CreateGrid
    \/ InterpolateFluxField
    \/ GenerateMeshGeometry
    \/ CalculateColorMapping
    \/ CreateAnomalyMarkers
    \/ GenerateMetadata

SpecManifold == InitManifold /\ [][NextManifold]_vars

\* C13: generate_manifold called with an empty sample list raises
\* ManifoldGenerationError before any computation: no grid, interpolation, mesh,
\* colour mapping, marker or metadata step is performed.
C13_EmptyInputFailsFirst ==
    (generation.pc # "idle" /\ generation.flux_data = <<>>) =>
        /\ generation.steps = <<>>
        /\ generation.pc \in {"start", "raised"}
        /\ generation.pc = "raised" =>
              generation.result.error.type = "ManifoldGenerationError"

C13_Witness ==
    /\ generation.pc = "raised"
    /\ generation.flux_data = <<>>
    /\ generation.result.error.message
           = <<"No flux data provided for manifold generation">>

\* C14 (as claimed): with a non-empty sample list generate_manifold never fails;
\* every internal failure is replaced by a fallback.  (Stated for the default
\* resolution, the one analyze_region uses.)
C14_NonEmptyNeverFails ==
    (/\ generation.pc # "idle"
     /\ generation.flux_data # <<>>
     /\ generation.resolution = DefaultResolution) => generation.pc # "raised"

\* C27: every face of the geometry returned by generate_manifold is a triangle
\* whose three indices each address a vertex of the returned vertex list, for
\* the flux-derived surface and for the base surface alike.
C27_FacesAreTriangles ==
    generation.pc = "done" =>
        LET geometry == generation.result.value.geometry
        IN \A face \in geometry.faces :
             /\ Len(face) = 3
             /\ \A k \in 1..Len(face) :
                   face[k] \in 0..(Len(geometry.vertices) - 1)

\* what does hold of the returned geometry: every index addresses a vertex, the
\* base surface has 4 vertices and 2 triangles, the flux surface has edges
C27_FacesIndexVertices ==
    generation.pc = "done" =>
        LET geometry == generation.result.value.geometry
        IN /\ \A face \in geometry.faces :
                \A k \in 1..Len(face) :
                   face[k] \in 0..(Len(geometry.vertices) - 1)
           /\ generation.surface = "base" =>
                /\ Len(geometry.vertices) = 4
                /\ Cardinality(geometry.faces) = 2
                /\ \A face \in geometry.faces : Len(face) = 3
           /\ generation.surface = "flux" =>
                \A face \in geometry.faces : Len(face) = 2

-----------------------------------------------------------------------------
(* igrf_coordinate_adapter.py: one call of an entry point of IGRFCoordinateAdapter. *)
(* An epoch is <<year, month, day, hour>>; the stack holds the coroutine frames,    *)
(* the running one last.                                                           *)

\* datetime comparison a <= b
EpochLeq(a, b) ==
    \/ a[1] < b[1]
    \/ a[1] = b[1] /\ a[2] < b[2]
    \/ a[1] = b[1] /\ a[2] = b[2] /\ a[3] < b[3]
    \/ a[1] = b[1] /\ a[2] = b[2] /\ a[3] = b[3] /\ a[4] <= b[4]

\* self._valid_epoch_range = (datetime(1900, 1, 1), datetime(2030, 12, 31))
valid_epoch_range == << <<1900, 1, 1, 0>>, <<2030, 12, 31, 0>> >>

\* IGRFCoordinateAdapter.validate_epoch
validate_epoch(epoch) ==
    EpochLeq(valid_epoch_range[1], epoch) /\ EpochLeq(epoch, valid_epoch_range[2])

\* get_magnetic_pole_position: pole_lat = 86.5 - 0.1 * (epoch.year - 2020), milli-degrees
PoleLatitude(epoch) == POLE_BASE_LAT - POLE_LAT_DRIFT * (epoch[1] - POLE_BASE_YEAR)

\* get_magnetic_pole_position: pole_lon = ((-164 + 10 * years + 180) % 360) - 180
PoleLongitude(epoch) ==
    (((POLE_BASE_LON + POLE_LON_DRIFT * (epoch[1] - POLE_BASE_YEAR)) + 180000) % 360000)
        - 180000

Epochs ==
    { <<1899, 12, 31, 23>>, <<1900, 1, 1, 0>>, <<1990, 6, 15, 12>>, <<2020, 6, 15, 12>>,
      <<2030, 12, 31, 0>>, <<2030, 12, 31, 12>>, <<2031, 1, 1, 0>> }

EntryPoints ==
    { "geographic_to_geomagnetic", "geomagnetic_to_geographic", "calculate_magnetic_field",
      "calculate_l_shell", "calculate_magnetic_local_time", "get_magnetic_pole_position",
      "validate_epoch" }

NoReturn == [kind |-> "none"]
Value(v) == [kind |-> "value", value |-> v]
Thrown(e) == [kind |-> "raise", error |-> e]

Frame(fn) == [fn |-> fn, pc |-> "start", ret |-> NoReturn, l_shell |-> NoReturn]

ModelNotAvailable == Raise("TransformationError", <<"IGRF model is not available">>)
InvalidEpoch == Raise("InvalidEpochError", <<"Epoch is outside valid range">>)
TransformationFailed(e) == Raise("TransformationError", Wrap("Transformation failed", e.message))
RecursionError == Raise("RecursionError", <<"maximum recursion depth exceeded">>)

DoCall(fn, next) == [do |-> "call", fn |-> fn, next |-> next]
DoReturn(v) == [do |-> "return", value |-> v]
DoRaise(e) == [do |-> "raise", error |-> e]

\* the head of geographic_to_geomagnetic, geomagnetic_to_geographic: the
\* availability check, then the epoch validation, then the first call in the try
CheckedStart(a) ==
    IF ~a.model_available THEN DoRaise(ModelNotAvailable)
    ELSE IF ~validate_epoch(a.epoch) THEN DoRaise(InvalidEpoch)
    ELSE DoCall("get_magnetic_pole_position", "after_pole")

\* what the running frame f does next, given the adapter a
Effect(f, a) ==
    CASE f.fn = "geographic_to_geomagnetic" ->
           ( CASE f.pc = "start" -> CheckedStart(a)
               [] f.pc = "after_pole" ->
                    IF f.ret.kind = "raise" THEN DoRaise(TransformationFailed(f.ret.error))
                    ELSE DoCall("calculate_l_shell", "after_l_shell")
               [] f.pc = "after_l_shell" ->
                    IF f.ret.kind = "raise" THEN DoRaise(TransformationFailed(f.ret.error))
                    ELSE DoCall("calculate_magnetic_local_time", "after_mlt")
               [] f.pc = "after_mlt" ->
                    IF f.ret.kind = "raise" THEN DoRaise(TransformationFailed(f.ret.error))
                    ELSE DoReturn([type |-> "GeomagneticCoordinates",
                                   l_shell |-> f.l_shell.value,
                                   magnetic_local_time |-> f.ret.value]) )
      [] f.fn = "geomagnetic_to_geographic" ->
           ( CASE f.pc = "start" -> CheckedStart(a)
               [] f.pc = "after_pole" ->
                    IF f.ret.kind = "raise" THEN DoRaise(TransformationFailed(f.ret.error))
                    ELSE DoReturn([type |-> "GeographicCoordinates"]) )
      [] f.fn = "calculate_magnetic_field" ->
           IF ~a.model_available THEN DoRaise(ModelNotAvailable)
           ELSE DoReturn([type |-> "field", year |-> a.epoch[1]])
      [] f.fn = "calculate_l_shell" ->
           ( CASE f.pc = "start" -> DoCall("geographic_to_geomagnetic", "after_transform")
               [] f.pc = "after_transform" ->
                    IF f.ret.kind = "raise" THEN DoReturn([type |-> "default", value |-> 1])
                    ELSE DoReturn([type |-> "l_shell"]) )
      [] f.fn = "calculate_magnetic_local_time" ->
           ( CASE f.pc = "start" -> DoCall("get_magnetic_pole_position", "after_pole")
               [] f.pc = "after_pole" ->
                    IF f.ret.kind = "raise" THEN DoReturn([type |-> "default", value |-> 12])
                    ELSE DoCall("geographic_to_geomagnetic", "after_transform")
               [] f.pc = "after_transform" ->
                    IF f.ret.kind = "raise" THEN DoReturn([type |-> "default", value |-> 12])
                    ELSE DoReturn([type |-> "mlt"]) )
      [] f.fn = "get_magnetic_pole_position" ->
           IF ValidCoordinates(GeographicCoordinates(PoleLongitude(a.epoch),
                                                     PoleLatitude(a.epoch), 0))
           THEN DoReturn([type |-> "GeographicCoordinates",
                          longitude |-> PoleLongitude(a.epoch),
                          latitude |-> PoleLatitude(a.epoch)])
           ELSE DoRaise(Raise("ValueError", <<"Invalid latitude">>))
      [] f.fn = "validate_epoch" -> DoReturn([type |-> "bool", value |-> validate_epoch(a.epoch)])

Top == igrf.stack[Len(igrf.stack)]
Running == igrf.pc = "running" /\ igrf.stack # <<>>

\* the value or exception r reaches the awaiting frame, or the caller of the entry point
Deliver(r) ==
    LET rest == SubSeq(igrf.stack, 1, Len(igrf.stack) - 1)
    IN IF rest = <<>>
       THEN igrf' = [igrf EXCEPT !.stack = <<>>, !.pc = "done", !.result = r]
       ELSE igrf' = [igrf EXCEPT
                       !.stack = [rest EXCEPT
                           ![Len(rest)].ret = r,
                           ![Len(rest)].l_shell =
                               IF Top.fn = "calculate_l_shell" THEN r ELSE @]]

InitTransform ==
    /\ InitAnalysisIdle
    /\ InitEntityIdle
    /\ now = 0
    /\ generation = [pc |-> "idle"]
    /\ publisher = [pc |-> "idle"]
    /\ ae9 = [pc |-> "idle"]
    /\ \E available \in BOOLEAN, op \in EntryPoints, epoch \in Epochs :
         igrf = [pc |-> "running", model_available |-> available, op |-> op,
                 epoch |-> epoch, stack |-> <<Frame(op)>>, deepest |-> 1,
                 result |-> NoReturn]

\* the running coroutine awaits another method of the adapter
Await ==
    /\ Running
    /\ Effect(Top, igrf).do = "call"
    /\ LET e == Effect(Top, igrf)
           n == Len(igrf.stack)
       IN IF n >= RecursionLimit
          THEN igrf' = [igrf EXCEPT !.stack[n].pc = e.next,
                                    !.stack[n].ret = Thrown(RecursionError)]
          ELSE igrf' = [igrf EXCEPT
                          !.stack = Append([@ EXCEPT ![n].pc = e.next], Frame(e.fn)),
                          !.deepest = Max(@, n + 1)]
    /\ UNCHANGED <<analysisVars, entityVars, now, generation, ae9, publisher>>

\* the running coroutine returns
ReturnFromCall ==
    /\ Running
    /\ Effect(Top, igrf).do = "return"
    /\ Deliver(Value(Effect(Top, igrf).value))
    /\ UNCHANGED <<analysisVars, entityVars, now, generation, ae9, publisher>>

\* the running coroutine raises
RaiseFromCall ==
    /\ Running
    /\ Effect(Top, igrf).do = "raise"
    /\ Deliver(Thrown(Effect(Top, igrf).error))
    /\ UNCHANGED <<analysisVars, entityVars, now, generation, ae9, publisher>>

NextTransform == Await \/ ReturnFromCall \/ RaiseFromCall

SpecTransform == InitTransform /\ [][NextTransform]_vars

TransformEntryPoints == EntryPoints \ {"validate_epoch"}

\* C15 (as claimed): with the model loaded, every transform entry point called with
\* an epoch outside the supported range ends by raising InvalidEpochError.
C15_InvalidEpochRejected ==
    (/\ igrf.pc = "done"
     /\ igrf.op \in TransformEntryPoints
     /\ igrf.model_available
     /\ ~(1900 <= igrf.epoch[1] /\ igrf.epoch[1] <= 2030)) =>
        /\ igrf.result.kind = "raise"
        /\ igrf.result.error.type = "InvalidEpochError"

\* C16 (as claimed): when the coefficient model is not loaded, every transform
\* entry point ends by raising ModelUnavailableError.
C16_ModelUnavailableRaised ==
    (igrf.pc = "done" /\ igrf.op \in TransformEntryPoints /\ ~igrf.model_available) =>
        /\ igrf.result.kind = "raise"
        /\ igrf.result.error.type = "ModelUnavailableError"

Nesting(fn) == Cardinality({k \in 1..Len(igrf.stack) : igrf.stack[k].fn = fn})

\* C17 (as claimed): with the model loaded and an epoch in the supported range
\* (here one for which the pole position is constructible), a call of
\* geographic_to_geomagnetic never re-enters geographic_to_geomagnetic while it
\* runs, and it ends by returning geomagnetic coordinates.
C17_TransformWellFounded ==
    (/\ igrf.pc # "idle"
     /\ igrf.op = "geographic_to_geomagnetic"
     /\ igrf.model_available
     /\ igrf.epoch \in {<<1990, 6, 15, 12>>, <<2020, 6, 15, 12>>}) =>
        /\ Nesting("geographic_to_geomagnetic") <= 1
        /\ igrf.pc = "done" => igrf.result.kind = "value"

\* C18 (as claimed): validate_epoch accepts exactly the instants of the years 1900
\* to 2030, any time of day of 2030-12-31 included.
C18_EpochRangeByYear ==
    (igrf.pc = "done" /\ igrf.op = "validate_epoch") =>
        /\ igrf.result.kind = "value"
        /\ igrf.result.value.value = (1900 <= igrf.epoch[1] /\ igrf.epoch[1] <= 2030)

\* C28 (as claimed): for every epoch of the years 1900 to 2030,
\* get_magnetic_pole_position returns a geographic point whose latitude lies in
\* [-90, 90] and whose longitude lies in [-180, 180].
C28_PoleValidForSupportedEpochs ==
    (/\ igrf.pc = "done"
     /\ igrf.op = "get_magnetic_pole_position"
     /\ 1900 <= igrf.epoch[1] /\ igrf.epoch[1] <= 2030) =>
        /\ igrf.result.kind = "value"
        /\ -90000 <= igrf.result.value.latitude /\ igrf.result.value.latitude <= 90000
        /\ -180000 <= igrf.result.value.longitude
        /\ igrf.result.value.longitude <= 180000

-----------------------------------------------------------------------------
(* ae9_ap9_adapter.py: one call of AE9AP9Adapter.get_flux_in_region.  Longitudes,   *)
(* latitudes and the resolution are in milli-degrees, altitudes in km; the         *)
(* resolution 0 stands for both None and 0.0, which `resolution or 1.0` replaces.  *)

GeographicRegion(lon_min, lon_max, lat_min, lat_max, alt_min, alt_max) ==
    [longitude_min |-> lon_min, longitude_max |-> lon_max,
     latitude_min |-> lat_min, latitude_max |-> lat_max,
     altitude_min |-> alt_min, altitude_max |-> alt_max]

\* GeographicRegion.__post_init__
ValidRegion(r) ==
    /\ -180000 <= r.longitude_min /\ r.longitude_min <= 180000
    /\ -180000 <= r.longitude_max /\ r.longitude_max <= 180000
    /\ -90000 <= r.latitude_min /\ r.latitude_min <= 90000
    /\ -90000 <= r.latitude_max /\ r.latitude_max <= 90000
    /\ r.altitude_min >= 0 /\ r.altitude_max >= 0
    /\ r.longitude_max > r.longitude_min
    /\ r.latitude_max > r.latitude_min
    /\ r.altitude_max > r.altitude_min

lon_span(region) == region.longitude_max - region.longitude_min
lat_span(region) == region.latitude_max - region.latitude_min

\* resolution = resolution or 1.0
EffectiveResolution(resolution) == IF resolution = 0 THEN DEFAULT_RESOLUTION ELSE resolution

lon_points(region, resolution) == (lon_span(region) \div EffectiveResolution(resolution)) + 1
lat_points(region, resolution) == (lat_span(region) \div EffectiveResolution(resolution)) + 1
alt_points(region) ==
    Max(1, ((region.altitude_max - region.altitude_min) \div ALTITUDE_STEP) + 1)
total_points(region, resolution) ==
    lon_points(region, resolution) * lat_points(region, resolution) * alt_points(region)

\* the size checks skipping the latitude span
region_too_large_longitude_only(region, resolution) ==
    \/ lon_span(region) > MAX_LON_SPAN
    \/ total_points(region, resolution) > MAX_TOTAL_POINTS

\* the two size checks of get_flux_in_region
region_too_large(region, resolution) ==
    \/ lon_span(region) > MAX_LON_SPAN \/ lat_span(region) > MAX_LAT_SPAN
    \/ total_points(region, resolution) > MAX_TOTAL_POINTS

\* np.linspace(lo, hi, n)
Linspace(lo, hi, n) ==
    [i \in 1..n |-> IF n = 1 THEN lo ELSE lo + ((i - 1) * (hi - lo)) \div (n - 1)]

\* the coordinates in the order of the three nested loops
GridCoordinates(region, resolution) ==
    LET lats == lat_points(region, resolution)
        alts == alt_points(region)
        longitudes == Linspace(region.longitude_min, region.longitude_max,
                               lon_points(region, resolution))
        latitudes == Linspace(region.latitude_min, region.latitude_max, lats)
        altitudes == Linspace(region.altitude_min, region.altitude_max, alts)
    IN [n \in 1..total_points(region, resolution) |->
          GeographicCoordinates(longitudes[((n - 1) \div (lats * alts)) + 1],
                                latitudes[(((n - 1) \div alts) % lats) + 1],
                                altitudes[((n - 1) % alts) + 1])]

\* AE9AP9Adapter.get_flux_data with the data source available: what is computed
\* for the coordinates, or None when the computation raises
get_flux_data(coordinates, failing) ==
    IF coordinates \in failing THEN [kind |-> "none"]
    ELSE [kind |-> "FluxData", at |-> coordinates]

IsFluxData(result) == result.kind = "FluxData"

\* a batch is given up as a whole when one of its retrievals fails
process_coordinate_batch_all_or_nothing(coordinates, failing) ==
    LET results == [i \in 1..Len(coordinates) |-> get_flux_data(coordinates[i], failing)]
    IN IF \E i \in 1..Len(results) : ~IsFluxData(results[i]) THEN <<>> ELSE results

\* AE9AP9Adapter._process_coordinate_batch: gather, then keep the FluxData
process_coordinate_batch(coordinates, failing) ==
    LET results == [i \in 1..Len(coordinates) |-> get_flux_data(coordinates[i], failing)]
    IN SelectSeq(results, IsFluxData)

Regions ==
    { GeographicRegion(-50000, -40000, -25000, -20000, 400, 500),
      GeographicRegion(-45000, -44000, -20000, -19000, 400, 449),
      GeographicRegion(0, 9000, 0, 9000, 400, 449),
      GeographicRegion(-62000, 62000, -40000, 39000, 400, 449),
      GeographicRegion(-90000, 91000, -20000, -19000, 400, 449),
      GeographicRegion(-45000, -44000, -45000, 46000, 400, 449),
      GeographicRegion(-90000, 90000, -45000, 45000, 400, 449) }

RegionResolutions == {0, 500, 1000, 2000}

\* grid positions whose retrieval fails
FailingPositions == { {}, {1}, {2, 100, 101}, {150, 198} }

\* grids above this size are retrieved without failures
MaxFailingGrid == 1000

InitRegion ==
    /\ InitAnalysisIdle
    /\ InitEntityIdle
    /\ now = 0
    /\ generation = [pc |-> "idle"]
    /\ publisher = [pc |-> "idle"]
    /\ igrf = [pc |-> "idle"]
    /\ \E available \in BOOLEAN, region \in Regions, resolution \in RegionResolutions,
          positions \in FailingPositions :
         /\ ValidRegion(region)
         /\ total_points(region, resolution) > MaxFailingGrid => positions = {}
         /\ ae9 = [pc |-> "called", data_available |-> available, region |-> region,
                   resolution |-> resolution, positions |-> positions, failing |-> {},
                   taken |-> 0, requested |-> <<>>, flux_data_list |-> <<>>,
                   result |-> [kind |-> "pending"]]

RegionUnchanged == UNCHANGED <<analysisVars, entityVars, now, generation, igrf, publisher>>

\* if not self._data_available: raise DataSourceUnavailableError
RegionUnavailable ==
    /\ ae9.pc = "called"
    /\ ~ae9.data_available
    /\ ae9' = [ae9 EXCEPT !.pc = "done", !.result = RaisedError(SourceUnavailable)]
    /\ RegionUnchanged

\* raise RegionTooLargeError
RegionRejected ==
    /\ ae9.pc = "called"
    /\ ae9.data_available
    /\ region_too_large(ae9.region, ae9.resolution)
    /\ ae9' = [ae9 EXCEPT !.pc = "done", !.result = RaisedError(RegionTooLarge)]
    /\ RegionUnchanged

\* the grid is generated; the retrievals that will fail are those at the chosen positions
GenerateGrid ==
    /\ ae9.pc = "called"
    /\ ae9.data_available
    /\ ~region_too_large(ae9.region, ae9.resolution)
    /\ LET grid == GridCoordinates(ae9.region, ae9.resolution)
       IN ae9' = [ae9 EXCEPT !.pc = "batching",
                             !.failing = {grid[n] : n \in ae9.positions \cap DOMAIN grid}]
    /\ RegionUnchanged

\* the loop has collected batch_size coordinates: they are retrieved together
ProcessFullBatch ==
    /\ ae9.pc = "batching"
    /\ total_points(ae9.region, ae9.resolution) - ae9.taken >= BATCH_SIZE
    /\ LET grid == GridCoordinates(ae9.region, ae9.resolution)
           coordinate_batches == SubSeq(grid, ae9.taken + 1, ae9.taken + BATCH_SIZE)
       IN ae9' = [ae9 EXCEPT
                    !.taken = @ + BATCH_SIZE,
                    !.requested = Append(@, coordinate_batches),
                    !.flux_data_list =
                        @ \o process_coordinate_batch(coordinate_batches, ae9.failing)]
    /\ RegionUnchanged

\* the loop is over: the remaining coordinates, if any, are retrieved and the list returned
ProcessRemaining ==
    /\ ae9.pc = "batching"
    /\ total_points(ae9.region, ae9.resolution) - ae9.taken < BATCH_SIZE
    /\ LET grid == GridCoordinates(ae9.region, ae9.resolution)
           coordinate_batches == SubSeq(grid, ae9.taken + 1, Len(grid))
           flux_data_list ==
               IF coordinate_batches = <<>> THEN ae9.flux_data_list
               ELSE ae9.flux_data_list
                        \o process_coordinate_batch(coordinate_batches, ae9.failing)
       IN ae9' = [ae9 EXCEPT
                    !.pc = "done",
                    !.taken = Len(grid),
                    !.requested = IF coordinate_batches = <<>> THEN @
                                  ELSE Append(@, coordinate_batches),
                    !.flux_data_list = flux_data_list,
                    !.result = ReturnedValue(flux_data_list)]
    /\ RegionUnchanged

NextRegion ==
    \/ RegionUnavailable
    \/ RegionRejected
    \/ GenerateGrid
    \/ ProcessFullBatch
    \/ ProcessRemaining

SpecRegion == InitRegion /\ [][NextRegion]_vars

\* the size condition as the contract words it
SpansOrCountExceeded ==
    \/ ae9.region.longitude_max - ae9.region.longitude_min > 180000
    \/ ae9.region.latitude_max - ae9.region.latitude_min > 90000
    \/ lon_points(ae9.region, ae9.resolution) * lat_points(ae9.region, ae9.resolution)
           * alt_points(ae9.region) > 10000

RaisedRegionTooLarge ==
    ae9.result.kind = "raised" /\ ae9.result.error.type = "RegionTooLargeError"

\* C19 (as claimed): get_flux_in_region raises RegionTooLargeError exactly when a
\* span or the grid point count exceeds its cap, and then retrieves nothing.
C19_TooLargeExactly ==
    ae9.pc = "done" =>
        /\ RaisedRegionTooLarge <=> SpansOrCountExceeded
        /\ SpansOrCountExceeded => ae9.requested = <<>>

\* C19 (amended): with the data source available, get_flux_in_region raises
\* RegionTooLargeError exactly when a span or the grid point count exceeds its
\* cap; with the data source unavailable it raises DataSourceUnavailableError
\* whatever the region; in both cases nothing is retrieved.
C19_TooLargeWhenAvailable ==
    ae9.pc = "done" =>
        /\ ae9.data_available => (RaisedRegionTooLarge <=> SpansOrCountExceeded)
        /\ ~ae9.data_available =>
              /\ ae9.result.kind = "raised"
              /\ ae9.result.error.type = "DataSourceUnavailableError"
        /\ (SpansOrCountExceeded \/ ~ae9.data_available) => ae9.requested = <<>>

\* a region over the latitude cap only is refused with the data source available
C19_Witness ==
    /\ ae9.pc = "done"
    /\ ae9.data_available
    /\ RaisedRegionTooLarge
    /\ lon_span(ae9.region) <= MAX_LON_SPAN
    /\ total_points(ae9.region, ae9.resolution) <= MAX_TOTAL_POINTS

RECURSIVE Flatten(_)
Flatten(batches) ==
    IF batches = <<>> THEN <<>> ELSE Head(batches) \o Flatten(Tail(batches))

Succeeds(coordinates) == coordinates \notin ae9.failing

\* C20: the batches requested so far are the grid coordinates in grid order, each
\* once, at most 100 per batch; the list built so far holds, in grid order, the
\* data of exactly the requested coordinates whose retrieval succeeded; a call
\* that passed the availability and size checks returns that list for the whole grid.
C20_BatchesIsolateFailures ==
    ae9.pc \in {"batching", "done"} /\ ae9.data_available /\ ~SpansOrCountExceeded =>
        LET grid == GridCoordinates(ae9.region, ae9.resolution)
            asked == Flatten(ae9.requested)
            succeeded == SelectSeq(asked, Succeeds)
        IN /\ asked = SubSeq(grid, 1, Len(asked))
           /\ \A b \in 1..Len(ae9.requested) :
                 Len(ae9.requested[b]) >= 1 /\ Len(ae9.requested[b]) <= 100
           /\ ae9.flux_data_list =
                 [i \in 1..Len(succeeded) |-> [kind |-> "FluxData", at |-> succeeded[i]]]
           /\ ae9.pc = "done" =>
                 /\ asked = grid
                 /\ ae9.result = ReturnedValue(ae9.flux_data_list)

\* a call over several batches with failing retrievals in two of them returns
\* all the other coordinates
C20_Witness ==
    /\ ae9.pc = "done"
    /\ ae9.result.kind = "returned"
    /\ Len(ae9.requested) >= 2
    /\ \E b1, b2 \in 1..Len(ae9.requested) :
          /\ b1 # b2
          /\ \E i \in 1..Len(ae9.requested[b1]) : ae9.requested[b1][i] \in ae9.failing
          /\ \E i \in 1..Len(ae9.requested[b2]) : ae9.requested[b2][i] \in ae9.failing
    /\ Len(ae9.result.value) = ae9.taken - Cardinality(ae9.failing)
    /\ Len(ae9.result.value) > 0

-----------------------------------------------------------------------------
(* ae9_ap9_adapter.py: get_flux_data calls in flight together on one adapter with   *)
(* the data source available.  A call runs up to the await of asyncio.sleep in      *)
(* _calculate_ae9_ap9_flux, is suspended there, and runs to its return when resumed. *)

RetrievalCoordinates ==
    { GeographicCoordinates(-45000, -20000, 400), GeographicCoordinates(-44000, -20000, 400) }

InitRetrieval ==
    /\ InitAnalysisIdle
    /\ InitEntityIdle
    /\ now = 0
    /\ generation = [pc |-> "idle"]
    /\ publisher = [pc |-> "idle"]
    /\ igrf = [pc |-> "idle"]
    /\ \E cache_enabled \in BOOLEAN, n \in 2..MaxCalls :
         \E coordinates \in [1..n -> RetrievalCoordinates] :
            ae9 = [pc |-> "retrieving", cache_enabled |-> cache_enabled,
                   cache |-> [c \in RetrievalCoordinates |-> <<>>],
                   calls |-> [i \in 1..n |-> [coordinates |-> coordinates[i],
                                              pc |-> "created", result |-> <<>>]],
                   computed |-> [c \in RetrievalCoordinates |-> 0]]

\* get_flux_data up to its first suspension: the cache lookup, a hit returns
BeginGetFluxData ==
    /\ ae9.pc = "retrieving"
    /\ \E i \in DOMAIN ae9.calls :
         /\ ae9.calls[i].pc = "created"
         /\ LET c == ae9.calls[i].coordinates
            IN IF ae9.cache_enabled /\ ae9.cache[c] # <<>>
               THEN ae9' = [ae9 EXCEPT !.calls[i].pc = "returned",
                                       !.calls[i].result = ae9.cache[c]]
               ELSE ae9' = [ae9 EXCEPT !.calls[i].pc = "suspended"]
    /\ UNCHANGED <<analysisVars, entityVars, now, generation, igrf, publisher>>

\* get_flux_data from the resumption to the return: the flux with its random
\* noise, the cache write, the return
ResumeGetFluxData ==
    /\ ae9.pc = "retrieving"
    /\ \E i \in DOMAIN ae9.calls, draw \in 1..MaxDraws :
         /\ ae9.calls[i].pc = "suspended"
         /\ LET c == ae9.calls[i].coordinates
                computed_flux == <<[kind |-> "FluxData", at |-> c, noise |-> draw]>>
            IN ae9' = [ae9 EXCEPT
                         !.calls[i].pc = "returned",
                         !.calls[i].result = computed_flux,
                         !.computed[c] = @ + 1,
                         !.cache[c] = IF ae9.cache_enabled THEN computed_flux ELSE @]
    /\ UNCHANGED <<analysisVars, entityVars, now, generation, igrf, publisher>>

NextRetrieval == BeginGetFluxData \/ ResumeGetFluxData

SpecRetrieval == InitRetrieval /\ [][NextRetrieval]_vars

\* C21 (as claimed): with caching enabled the value of a coordinate is computed
\* once, and all calls for that coordinate return the same value, whatever the
\* interleaving of the calls in flight.
C21_ComputedOnceSameValue ==
    (ae9.pc = "retrieving" /\ ae9.cache_enabled) =>
        /\ \A c \in RetrievalCoordinates : ae9.computed[c] <= 1
        /\ \A i, j \in DOMAIN ae9.calls :
              (/\ ae9.calls[i].pc = "returned" /\ ae9.calls[j].pc = "returned"
               /\ ae9.calls[i].coordinates = ae9.calls[j].coordinates) =>
                 ae9.calls[i].result = ae9.calls[j].result

-----------------------------------------------------------------------------
(* domain_events.py: one call of DomainEventPublisher.publish for an event of type  *)
(* "analysis_completed".  _handlers maps an event type to its handler list; a key   *)
(* is present exactly when its list is not empty.  The for loop of publish walks    *)
(* the list object itself: `index` is the position of its iterator.                *)

HandlerIds == 1..3

\* what a handler does when it is awaited: a coroutine function that returns, one
\* that raises, a plain function (awaiting its None raises TypeError), or one
\* that calls unsubscribe("analysis_completed", target) and returns
HandlerBehaviours ==
    {[does |-> d, target |-> 0] : d \in {"returns", "raises", "plain"}}
        \cup {[does |-> "unsubscribes", target |-> t] : t \in HandlerIds}

\* list.remove(x): the first occurrence is taken out
ListRemove(list, x) ==
    LET k == CHOOSE i \in 1..Len(list) :
                 list[i] = x /\ \A j \in 1..(i - 1) : list[j] # x
    IN SubSeq(list, 1, k - 1) \o SubSeq(list, k + 1, Len(list))

InList(list, x) == \E i \in 1..Len(list) : list[i] = x

\* one iteration of the loop of publish, stopping the dispatch when the handler fails
DispatchStep_stop_on_error(p) ==
    LET list == p.handlers["analysis_completed"]
        handler == list[p.index + 1]
        failed == p.behaviour[handler].does \in {"raises", "plain"}
    IN [p EXCEPT !.index = @ + 1,
                 !.invoked = Append(@, handler),
                 !.pc = IF failed THEN "done" ELSE @,
                 !.result = IF failed THEN RaisedError(Raise("Exception", <<"handler">>))
                            ELSE @]

\* one iteration of the loop of publish: the next handler of the list is awaited,
\* an exception of it is printed
DispatchStep(p) ==
    LET list == p.handlers["analysis_completed"]
        handler == list[p.index + 1]
        b == p.behaviour[handler]
        removes == b.does = "unsubscribes" /\ InList(list, b.target)
        \* unsubscribe: remove raises ValueError when the handler is not in the
        \* list; with the key gone unsubscribe does nothing
        fails == \/ b.does \in {"raises", "plain"}
                 \/ b.does = "unsubscribes" /\ list # <<>> /\ ~InList(list, b.target)
    IN [p EXCEPT !.index = @ + 1,
                 !.invoked = Append(@, handler),
                 !.handlers["analysis_completed"] =
                     IF removes THEN ListRemove(list, b.target) ELSE @,
                 !.removed = IF removes THEN @ \cup {b.target} ELSE @,
                 !.printed = IF fails THEN Append(@, handler) ELSE @]

RECURSIVE SeqsUpTo(_, _)
SeqsUpTo(S, n) ==
    IF n = 0 THEN {<<>>}
    ELSE LET shorter == SeqsUpTo(S, n - 1)
         IN shorter \cup {Append(q, x) : q \in shorter, x \in S}

InitPublish ==
    /\ InitAnalysisIdle
    /\ InitEntityIdle
    /\ now = 0
    /\ generation = [pc |-> "idle"]
    /\ igrf = [pc |-> "idle"]
    /\ ae9 = [pc |-> "idle"]
    /\ \E subscribed \in SeqsUpTo(HandlerIds, MaxSubscriptions),
          other \in {<<>>, <<3>>},
          behaviour \in [HandlerIds -> HandlerBehaviours] :
         publisher = [pc |-> "dispatching",
                      handlers |-> [t \in {"analysis_completed", "anomaly_detected"} |->
                                      IF t = "analysis_completed" THEN subscribed ELSE other],
                      behaviour |-> behaviour,
                      subscribed |-> subscribed,
                      index |-> 0, invoked |-> <<>>, removed |-> {}, printed |-> <<>>,
                      result |-> Pending]

PublishUnchanged == UNCHANGED <<analysisVars, entityVars, now, generation, igrf, ae9>>

\* the loop takes the next handler
InvokeHandler ==
    /\ publisher.pc = "dispatching"
    /\ publisher.index < Len(publisher.handlers["analysis_completed"])
    /\ publisher' = DispatchStep(publisher)
    /\ PublishUnchanged

\* the iterator is exhausted (or the event type has no key): publish returns None
CompletePublish ==
    /\ publisher.pc = "dispatching"
    /\ publisher.index >= Len(publisher.handlers["analysis_completed"])
    /\ publisher' = [publisher EXCEPT !.pc = "done", !.result = ReturnedValue("None")]
    /\ PublishUnchanged

NextPublish == InvokeHandler \/ CompletePublish

SpecPublish == InitPublish /\ [][NextPublish]_vars

Invocations(h) ==
    Cardinality({k \in 1..Len(publisher.invoked) : publisher.invoked[k] = h})

NoHandlerUnsubscribes ==
    \A k \in 1..Len(publisher.subscribed) :
        publisher.behaviour[publisher.subscribed[k]].does # "unsubscribes"

C29_UnsubscribeKeepsOthers ==
    publisher.pc = "done" =>
        /\ \A h \in HandlerIds :
              (/\ InList(publisher.subscribed, h)
               /\ h \notin publisher.removed
               /\ Cardinality({k \in 1..Len(publisher.subscribed) :
                                  publisher.subscribed[k] = h}) = 1) =>
                 Invocations(h) = 1
        /\ publisher.result = ReturnedValue("None")

-----------------------------------------------------------------------------
(* coordinates.py: construction of a GeomagneticCoordinates value.  Angles are in   *)
(* milli-degrees, l_shell in thousandths, magnetic_local_time in milli-hours.      *)

\* GeomagneticCoordinates.__post_init__: the error raised, or NoError
GeomagneticCoordinatesError(magnetic_longitude, magnetic_latitude, l_shell, magnetic_local_time) ==
    IF ~(-180000 <= magnetic_longitude /\ magnetic_longitude <= 180000)
    THEN Raise("ValueError", <<"Invalid magnetic longitude">>)
    ELSE IF ~(-90000 <= magnetic_latitude /\ magnetic_latitude <= 90000)
    THEN Raise("ValueError", <<"Invalid magnetic latitude">>)
    ELSE IF l_shell < 1000
    THEN Raise("ValueError", <<"Invalid L-shell value">>)
    ELSE IF ~(0 <= magnetic_local_time /\ magnetic_local_time <= 24000)
    THEN Raise("ValueError", <<"Invalid MLT">>)
    ELSE NoError

InitCoordinates ==
    /\ InitAnalysisIdle
    /\ InitComponentsIdle
    /\ store = <<>>
    /\ call = [op |-> "none"]

\* GeomagneticCoordinates(magnetic_longitude, magnetic_latitude, l_shell, magnetic_local_time)
ConstructGeomagnetic ==
    /\ \E mlon \in {-180001, -180000, 0, 180000, 180001},
          mlat \in {-90001, -90000, 0, 90000, 90001},
          l \in {999, 1000, 6000},
          mlt \in {-1, 0, 12000, 23999, 24000, 24001} :
         LET e == GeomagneticCoordinatesError(mlon, mlat, l, mlt)
         IN call' = [op |-> "GeomagneticCoordinates",
                     magnetic_longitude |-> mlon, magnetic_latitude |-> mlat,
                     l_shell |-> l, magnetic_local_time |-> mlt,
                     result |-> IF e = NoError THEN ReturnedValue("constructed")
                                ELSE RaisedError(e)]
    /\ UNCHANGED <<store, analysisVars, componentVars>>

NextCoordinates == ConstructGeomagnetic

SpecCoordinates == InitCoordinates /\ [][NextCoordinates]_vars

\* C23 (as claimed): a constructed GeomagneticCoordinates has l_shell >= 1.0 and
\* magnetic_local_time in [0, 24), 24 excluded.
C23_MltHalfOpen ==
    (call.op = "GeomagneticCoordinates" /\ call.result.kind = "returned") =>
        /\ call.l_shell >= 1000
        /\ 0 <= call.magnetic_local_time /\ call.magnetic_local_time < 24000

-----------------------------------------------------------------------------
(* Claims on the clustering loop of _cluster_spatial_anomalies *)

RECURSIVE ClustersFormed(_, _, _, _, _, _)
\* the cluster_points lists (as sets of candidate positions) built by the loop of
\* _cluster_spatial_anomalies from candidate i on, up to its return or to the
\* exception of _create_anomaly_from_cluster
ClustersFormed(cands, data, p, i, processed, created) ==
    IF i > Len(cands) THEN <<>>
    ELSE IF i \in processed THEN ClustersFormed(cands, data, p, i + 1, processed, created)
    ELSE
      LET members == ClusterMembers(cands, i, processed, p)
          r == create_anomaly_from_cluster(SelectIdx(cands, members, 1), data, created + 1)
      IN <<members>> \o
           (IF r.kind = "raise" THEN <<>>
            ELSE ClustersFormed(cands, data, p, i + 1, processed \cup members,
                                IF r.kind = "anomaly" THEN created + 1 ELSE created))

-----------------------------------------------------------------------------
(* _merge_overlapping_anomalies on lists of validated anomalies *)

\* catalogue anomalies that pass _validate_anomalies, at three latitudes
\* 11 km, 5.5 km and 16.7 km apart
MergeCatalogue ==
    { a \in { SAAAnomaly(0, GeographicCoordinates(PLACEHOLDER_LON, lat, PLACEHOLDER_ALT),
                          p[2], p[1], p[3]) :
                 lat \in {-20000, -19900, -19850}, p \in Profiles } :
        PassesValidation(a, DefaultParameters) }

InitMergePass ==
    /\ InitAnalysisIdle
    /\ InitComponentsIdle
    /\ store \in { [i \in 1..Len(q) |-> WithId(q[i], i)] :
                      q \in SeqsUpTo(MergeCatalogue, MaxList) }
    /\ call = [op |-> "none"]

\* detect_anomalies step 4 on the list held in store
MergePass ==
    /\ call.op = "none"
    /\ call' = [op |-> "merge_pass", input |-> store,
                result |-> merge_overlapping_anomalies(store)]
    /\ UNCHANGED <<store, analysisVars, componentVars>>

NextMergePass == MergePass

SpecMergePass == InitMergePass /\ [][NextMergePass]_vars

RECURSIVE MergeGroups(_, _, _, _)
\* for each anomaly appended to `merged`, the positions of the input anomalies
\* the loops marked as processed while building it
MergeGroups(list, i, processed, next_id) ==
    IF i > Len(list) THEN <<>>
    ELSE IF i \in processed THEN MergeGroups(list, i + 1, processed, next_id)
    ELSE LET r == MergeInner(list, i + 1, list[i], processed \cup {i}, next_id)
         IN IF r.kind = "raise" THEN <<>>
            ELSE <<r.processed \ processed>>
                     \o MergeGroups(list, i + 1, r.processed, r.next_id)

RECURSIVE SumOver(_, _)
SumOver(f, S) ==
    IF S = {} THEN 0 ELSE LET x == CHOOSE y \in S : TRUE IN f[x] + SumOver(f, S \ {x})

\* C25: when the merge pass returns, the input anomalies are partitioned into
\* the groups consumed by the outputs, one group per output in input order: an
\* unmerged input is output unchanged, a merged output carries the summed peak
\* intensity of its group, no input is in two groups or in none, there are at
\* most as many outputs as inputs, and the outputs are those of this one pass
\* (they may still overlap one another).
C25_MergePassConsumesOnce ==
    (call.op = "merge_pass" /\ call.result.kind = "ok") =>
        LET input == call.input
            out == call.result.anomalies
            groups == IF Len(input) <= 1 THEN [i \in 1..Len(input) |-> {i}]
                      ELSE MergeGroups(input, 1, {}, FreshId(input))
            value == [i \in 1..Len(input) |-> input[i].intensity_peak.value]
        IN /\ Len(out) = Len(groups)
           /\ Len(out) <= Len(input)
           /\ \A i \in 1..Len(input) :
                 Cardinality({k \in 1..Len(groups) : i \in groups[k]}) = 1
           /\ \A k \in 1..Len(out) :
                 /\ groups[k] # {}
                 /\ out[k].intensity_peak.value = SumOver(value, groups[k])
                 /\ Cardinality(groups[k]) = 1 => out[k] = input[SetMin(groups[k])]
                 /\ Cardinality(groups[k]) > 1 =>
                       \A i \in 1..Len(input) : out[k].id # input[i].id
                 /\ k > 1 => SetMin(groups[k - 1]) < SetMin(groups[k])

\* the pass merged the first and third anomaly, left the second alone, and the
\* two outputs overlap: a second pass would merge them
C25_Witness ==
    /\ call.op = "merge_pass"
    /\ call.result.kind = "ok"
    /\ Len(call.input) = 3
    /\ Len(call.result.anomalies) = 2
    /\ call.result.anomalies[2] = call.input[2]
    /\ overlaps_with(call.result.anomalies[1], call.result.anomalies[2])

-----------------------------------------------------------------------------
(* anomaly_detection_service.py: _detect_statistical_anomalies on its own, on    *)
(* sample lists that include samples without flux.                               *)

\* electron and proton fluxes a FluxIntensity accepts (value >= 0), zero included
StatisticalSamples ==
    { FluxData(FluxIntensity(e, 1, PEAK_CONFIDENCE, DefaultUnits),
               FluxIntensity(q, 1, PEAK_CONFIDENCE, DefaultUnits), "high") :
        e \in {0, BaseFlux, HotFlux}, q \in {0, ProtonFlux} }

\* values of intensity_threshold_sigma, none negative
Sigmas == {0, 1, DEFAULT_SIGMA}

InitStatistical ==
    /\ InitAnalysisIdle
    /\ InitComponentsIdle
    /\ store = <<>>
    /\ \E data \in SeqsUpTo(StatisticalSamples, MaxFluxSamples), sigma \in Sigmas :
         call = [op |-> "none", flux_data |-> data,
                 params |-> [DefaultParameters EXCEPT
                                !.intensity_threshold_sigma = sigma]]

\* one call of _detect_statistical_anomalies
DetectStatistical ==
    /\ call.op = "none"
    /\ call' = [op |-> "detect_statistical", flux_data |-> call.flux_data,
                params |-> call.params,
                result |-> detect_statistical_anomalies(call.flux_data, call.params)]
    /\ UNCHANGED <<store, analysisVars, componentVars>>

NextStatistical == DetectStatistical

SpecStatistical == InitStatistical /\ [][NextStatistical]_vars

\* C30: with a non-negative intensity_threshold_sigma every candidate comes from
\* a sample whose flux exceeds a strictly positive threshold, so its score
\* flux / threshold is defined and > 1 (n * flux - sum > sigma * n * std, stated
\* without the square root); every non-empty group of candidates therefore has
\* a positive total weight and _create_anomaly_from_cluster never returns None
\* for it.
C30_CandidateScoresAboveOne ==
    (call.op = "detect_statistical" /\ call.params.intensity_threshold_sigma >= 0) =>
        LET fluxes == TotalFluxes(call.flux_data)
            sigma == call.params.intensity_threshold_sigma
            cands == call.result
        IN /\ \A k \in 1..Len(cands) :
                LET d == Len(fluxes) * fluxes[cands[k].data_idx + 1] - SumSeq(fluxes)
                IN /\ ScaledThreshold(fluxes, sigma) > 0
                   /\ d > 0
                   /\ d * d > sigma * sigma * ScaledVariance(fluxes)
                   /\ cands[k].score >= 1000
           /\ \A S \in SUBSET (1..Len(cands)) :
                S # {} =>
                  /\ SumOver([k \in 1..Len(cands) |-> cands[k].score], S) > 0
                  /\ create_anomaly_from_cluster(SelectIdx(cands, S, 1),
                                                 call.flux_data, 1) # ReturnedNone

\* one candidate among samples of which one carries no flux at all, sigma 1
C30_Witness ==
    /\ call.op = "detect_statistical"
    /\ call.params.intensity_threshold_sigma = 1
    /\ Len(call.result) = 1
    /\ \E i \in 1..Len(call.flux_data) : TotalFluxes(call.flux_data)[i] = 0

-----------------------------------------------------------------------------
(* Claims on the entity's event log and on update_center_position *)

UpdateCall == call.op \in {"update_intensity", "update_center_position"}

\* the event a successful update call is to append
ExpectedEvent ==
    LET a == call.before[call.self]
    IN IF call.op = "update_intensity"
       THEN IntensityChangedEvent(a.id, a.intensity_peak.value, call.arg.value)
       ELSE PositionChangedEvent(a.id, a.center_coordinates, call.arg,
                                 distance_to(a.center_coordinates, call.arg))

\* a successful update appends exactly its event to the log of the entity it is
\* called on and touches no other log; a rejected one changes nothing; every log
\* starts with the detected event of its entity
EventPerMutation ==
    /\ \A i \in 1..Len(store) : store[i].domain_events[1] = DetectedEvent(store[i].id)
    /\ UpdateCall =>
         IF call.result.kind = "mutated"
         THEN /\ store[call.self].domain_events
                    = Append(call.before[call.self].domain_events, ExpectedEvent)
              /\ \A i \in 1..Len(store) : i # call.self => store[i] = call.before[i]
         ELSE store = call.before

MergeEvents(a) ==
    Cardinality({k \in 1..Len(a.domain_events) :
                    a.domain_events[k].type = "saa_anomalies_merged"})

\* C11 (as claimed): construction records one detected event and every successful
\* update appends exactly one event, a rejected one none, so that after n
\* successful mutations the log of an anomaly holds n+1 events.
C11_LogHoldsMutationsPlusOne ==
    /\ EventPerMutation
    /\ \A i \in 1..Len(store) : Len(store[i].domain_events) = (store[i].version - 1) + 1

\* C11 (amended): as above, except that the log of an anomaly created by merge_with
\* starts with two events (detected, merged): after n successful mutations it holds
\* n+2 events, the log of a directly constructed anomaly n+1.
C11_LogHoldsMutationsAndCreation ==
    /\ EventPerMutation
    /\ \A i \in 1..Len(store) :
         /\ Len(store[i].domain_events) = (store[i].version - 1) + 1 + MergeEvents(store[i])
         /\ MergeEvents(store[i]) = IF i > 2 THEN 1 ELSE 0

C11_Witness ==
    \E i \in 1..Len(store) :
        /\ store[i].version = 3
        /\ store[i].domain_events[2].type = "saa_anomaly_intensity_changed"
        /\ store[i].domain_events[3].type = "saa_anomaly_position_changed"
        /\ UpdateCall /\ call.result.kind = "raise"

\* C12: update_center_position to a point more than 1000 km from the current
\* centre raises ValueError and leaves the anomaly (centre, drift_rate, version,
\* last update time, event log) as it was; a move of at most 1000 km succeeds and
\* replaces the centre; no update changes the id of an anomaly.
C12_MovementLimit ==
    /\ UpdateCall => \A i \in 1..Len(call.before) : store[i].id = call.before[i].id
    /\ call.op = "update_center_position" =>
         LET a == call.before[call.self]
         IN IF distance_to(a.center_coordinates, call.arg) > 1000 * 1000
            THEN /\ call.result.kind = "raise"
                 /\ call.result.error.type = "ValueError"
                 /\ store = call.before
            ELSE /\ call.result.kind = "mutated"
                 /\ store[call.self].center_coordinates = call.arg

C12_Witness ==
    /\ call.op = "update_center_position"
    /\ call.result.kind = "raise"
    /\ call.before[call.self].last_position_update # <<>>
    /\ call.before[call.self].drift_rate # <<>>
PositionUpdated == call.op = "update_center_position" /\ call.result.kind = "mutated"

====
